---- MODULE Spec2Model ----
(***************************************************************************)
(* Ledger, stock and wager engine of the PLUXO combined server             *)
(* (src/main.py, with the stand-alone copies src/api_server.py and         *)
(* src/admin_balance_bot.py).                                              *)
(*                                                                         *)
(* The persisted documents (balances.json, shop_products.json,             *)
(* games.json) are the shared state.  Every handler loads a whole          *)
(* document into a local snapshot, changes the snapshot and writes the     *)
(* whole document back; one model step is one file read or one file write  *)
(* of a handler together with the local computation that precedes the      *)
(* next file access.  The Flask server is threaded (main.py:1620), the     *)
(* Telegram bot runs in a thread of its own (main.py:1611), so steps of    *)
(* different threads interleave.  GAMES_LOCK is held by the wager          *)
(* handlers only.                                                          *)
(*                                                                         *)
(* Money is a Python float in the code.  The model counts fifths of a      *)
(* cent: every value is an integer multiple of 0.002, additions and        *)
(* subtractions are exact, and round(x, 2) never meets a half-cent tie.    *)
(***************************************************************************)
EXTENDS Integers, Sequences, FiniteSets, TLC

\* ------------------------------------------------------------------ bounds
MaxRequests == 3      \* requests started in one behaviour
MaxStock == 2         \* items in the initial stock list

\* --------------------------------------------------------------- constants
UnitsPerCent == 5     \* resolution of the money grid below round(x, 2)
Cent == UnitsPerCent
Dollar == 100 * Cent
MinStake == 1         \* amount < 1 is rejected
MaxStake == 25        \* amount > 25 is rejected
LogCap == 1000        \* logs["logs"][-1000:]
HistoryCap == 100     \* history[:100]
DiceLow == 1
DiceHigh == 6
ScoreLow == 12
ScoreHigh == 22
BustLimit == 21

Users == {"alice", "bob", "tie"}
Workers == {"w1", "w2"}      \* Flask request threads
BotThread == "bot"           \* the bot's event-loop thread
Threads == Workers \cup {BotThread}
NoUser == ""                 \* None / missing username
NoProduct == 0               \* a missing productId
NoLock == "free"

\* ------------------------------------------------------------ pure helpers
Max(a, b) == IF a >= b THEN a ELSE b

Abs(x) == IF x >= 0 THEN x ELSE -x

\* round(float(value), 2): the nearest whole cent.
as_money(x) ==
    IF x >= 0 THEN ((x + (UnitsPerCent \div 2)) \div UnitsPerCent) * UnitsPerCent
    ELSE -(((-x + (UnitsPerCent \div 2)) \div UnitsPerCent) * UnitsPerCent)

RECURSIVE SumPrices(_)
SumPrices(items) ==
    IF items = <<>> THEN 0 ELSE Head(items).price + SumPrices(Tail(items))

Range(s) == {s[i] : i \in 1..Len(s)}

BalanceRecord(bal, tot) == [balance |-> bal, totalRecharge |-> tot]

EmptyDoc == [u \in {} |-> BalanceRecord(0, 0)]

Put(doc, u, rec) == [x \in (DOMAIN doc) \cup {u} |-> IF x = u THEN rec ELSE doc[x]]

\* balances[username] = {"balance": 0, "totalRecharge": 0} when absent
WithUser(doc, u) == IF u \in DOMAIN doc THEN doc ELSE Put(doc, u, BalanceRecord(0, 0))

SetBalance(doc, u, bal) == Put(doc, u, [doc[u] EXCEPT !.balance = bal])

\* /api/balance/<username>: the stored balance, 0 for an unknown user
get_user_balance(doc, u) == IF u \in DOMAIN doc THEN doc[u].balance ELSE 0

\* ensure_balance_user: create the record when absent and round both fields
ensure_balance_user(doc, u) ==
    LET d == WithUser(doc, u)
    IN  Put(d, u, BalanceRecord(as_money(d[u].balance), as_money(d[u].totalRecharge)))

EmptyGames ==
    [dice_bets |-> <<>>, dice_history |-> <<>>,
     blackjack_matches |-> <<>>, blackjack_history |-> <<>>]

\* --------------------------------------------------------------- the state
VARIABLES
    balances,   \* balances.json: username -> [balance, totalRecharge]
    stock,      \* shop_products.json: the ordered list of products
    games,      \* games.json: active lists and histories of both games
    lock,       \* GAMES_LOCK: the thread holding it, or NoLock
    th,         \* per thread: the handler it runs, its locals, its result
    nreq,       \* requests started so far
    nextId,     \* next wager id (make_id: never reused)
    logs,       \* logs.json: the audit log, oldest entry first
    locked,     \* SYSTEM_LOCKED of admin_balance_bot.py
    ghost       \* history variables of the properties (not program state)

vars == <<balances, stock, games, lock, th, nreq, nextId, logs, locked, ghost>>

Idle ==
    [pc |-> "done", op |-> "none", result |-> "none",
     user |-> NoUser, action |-> "", amount |-> 0, items |-> <<>>, wid |-> 0,
     bal |-> EmptyDoc, oldBalance |-> 0, total |-> 0,
     stk |-> <<>>, removed |-> <<>>, missing |-> <<>>, ids |-> <<>>,
     gms |-> EmptyGames, value |-> 0,
     preBal |-> EmptyDoc, preStock |-> <<>>, preGames |-> EmptyGames, preLogs |-> <<>>,
     caller |-> "", preLocked |-> FALSE, lost |-> FALSE,
     logbuf |-> <<>>, logname |-> "", answer |-> "none",
     wrote |-> {}, seq |-> 0]

\* A request enters a handler: the thread is free and the budget allows it.
CanStart(t) == th[t].pc = "done" /\ nreq < MaxRequests

\* The locals of a handler that starts now (preBal, preStock, preGames: what
\* the files held when the request arrived; wrote: the files this request has
\* written; seq: the number of the request).
Fresh(op, u) ==
    [Idle EXCEPT !.op = op, !.user = u, !.preBal = balances, !.preStock = stock,
                 !.preGames = games, !.preLogs = logs, !.preLocked = locked,
                 !.seq = nreq + 1]

Finish(rec, res) == [rec EXCEPT !.pc = "done", !.result = res]

\* ------------------------------------------------------ the audit log (log_action)
\* logs["logs"].append(entry); logs["logs"] = logs["logs"][-1000:]
log_action(log, entry) ==
    LET l == Append(log, entry)
    IN  SubSeq(l, Max(1, Len(l) - LogCap + 1), Len(l))

\* The handler goes on to its log_action call and answers res after it.
ThenLog(rec, name, res) == [rec EXCEPT !.pc = "log_load", !.logname = name, !.answer = res]

\* load_json(LOGS_FILE), the append and the cut: the entry carries the action
\* name and, for its timestamp, the number of the request.
LogLoad(t) ==
    /\ th[t].pc = "log_load"
    /\ th' = [th EXCEPT ![t] =
                [@ EXCEPT !.pc = "log_save",
                          !.logbuf = log_action(logs, [action |-> th[t].logname, seq |-> th[t].seq])]]
    /\ UNCHANGED <<balances, stock, games, lock, nreq, nextId, logs, ghost, locked>>

\* save_json(LOGS_FILE, logs), then the handler returns
LogSave(t) ==
    /\ th[t].pc = "log_save"
    /\ logs' = th[t].logbuf
    /\ th' = [th EXCEPT ![t] = Finish([@ EXCEPT !.wrote = @ \cup {"logs"}], @.answer)]
    /\ UNCHANGED <<balances, stock, games, lock, nreq, nextId, locked, ghost>>

LogSteps == \E t \in Threads : LogLoad(t) \/ LogSave(t)

GhostInit ==
    [accepted |-> [u \in Users |-> 0],
     clamped |-> [u \in Users |-> 0],
     stake |-> [i \in {} |-> 0],
     gone |-> {},
     resolved |-> [i \in {} |-> 0],
     assigned |-> <<>>]

\* ------------------------------------------- /api/register (webhook_register)
\* webhook_register writing a new record whether or not one exists
NewRecord_Always(doc, u) == [is_new |-> TRUE, doc |-> Put(doc, u, BalanceRecord(0, 0))]

\* is_new = username not in balances; a record of 0 / 0 is added when new
NewRecord(doc, u) ==
    IF u \in DOMAIN doc THEN [is_new |-> FALSE, doc |-> doc]
    ELSE [is_new |-> TRUE, doc |-> Put(doc, u, BalanceRecord(0, 0))]

Register(t, u) ==
    /\ t \in Workers
    /\ CanStart(t)
    /\ nreq' = nreq + 1
    /\ IF u = NoUser
         THEN th' = [th EXCEPT ![t] = Finish(Fresh("register", u), "UsernameRequired")]
         ELSE LET r == NewRecord(balances, u)
              IN  IF ~r.is_new
                    THEN th' = [th EXCEPT ![t] = Finish(Fresh("register", u), "exists")]
                    ELSE th' = [th EXCEPT ![t] =
                                  [Fresh("register", u) EXCEPT !.pc = "reg_save", !.bal = r.doc]]
    /\ UNCHANGED <<balances, stock, games, lock, nextId, logs, ghost, locked>>

RegisterSave(t) ==
    /\ th[t].pc = "reg_save"
    /\ balances' = th[t].bal
    /\ th' = [th EXCEPT ![t] = ThenLog([@ EXCEPT !.wrote = @ \cup {"balances"}], "NEW_USER", "new")]
    /\ UNCHANGED <<stock, games, lock, nreq, nextId, logs, ghost, locked>>

\* ------------------------------------ /api/balance/<username> (get_user_balance)
ReadBalance(t, u) ==
    /\ t \in Workers
    /\ CanStart(t)
    /\ nreq' = nreq + 1
    /\ th' = [th EXCEPT ![t] =
                Finish([Fresh("get_balance", u) EXCEPT
                          !.value = get_user_balance(balances, u)], "ok")]
    /\ UNCHANGED <<balances, stock, games, lock, nextId, logs, ghost, locked>>

\* ------------------------------------ /api/balance/update (update_user_balance)
\* update_user_balance with max(0, ...) in place of the insufficient-balance answer
UpdateDecision_Clamping(doc, u, action, amount) ==
    LET d == WithUser(doc, u)
        old == d[u].balance
    IN  IF action = "subtract"
          THEN [result |-> "ok", doc |-> SetBalance(d, u, Max(0, old - amount))]
          ELSE IF action = "add"
            THEN [result |-> "ok", doc |-> SetBalance(d, u, old + amount)]
            ELSE [result |-> "InvalidAction", doc |-> d]

\* update_user_balance without the old_balance < amount check
UpdateDecision_Unchecked(doc, u, action, amount) ==
    LET d == WithUser(doc, u)
        old == d[u].balance
    IN  IF action = "subtract"
          THEN [result |-> "ok", doc |-> SetBalance(d, u, old - amount)]
          ELSE IF action = "add"
            THEN [result |-> "ok", doc |-> SetBalance(d, u, old + amount)]
            ELSE [result |-> "InvalidAction", doc |-> d]

\* The decision of update_user_balance on the loaded document: the result and
\* the new balance to store.
UpdateDecision(doc, u, action, amount) ==
    LET d == WithUser(doc, u)
        old == d[u].balance
    IN  IF action = "subtract"
          THEN IF old < amount
                 THEN [result |-> "InsufficientBalance", doc |-> d]
                 ELSE [result |-> "ok", doc |-> SetBalance(d, u, old - amount)]
          ELSE IF action = "add"
            THEN [result |-> "ok", doc |-> SetBalance(d, u, old + amount)]
            ELSE [result |-> "InvalidAction", doc |-> d]

\* History of the adjust calls, as the two readings of "sum, clamped" count them.
GhostAdjust(g, u, action, amount, res) ==
    [g EXCEPT
       !.accepted[u] = IF res # "ok" THEN @
                       ELSE IF action = "add" THEN @ + amount ELSE @ - amount,
       !.clamped[u] = IF action = "add" THEN @ + amount
                      ELSE IF action = "subtract" THEN Max(0, @ - amount) ELSE @]

UpdateBalance(t, u, action, amount) ==
    /\ t \in Workers
    /\ CanStart(t)
    /\ nreq' = nreq + 1
    /\ LET req == [Fresh("update", u) EXCEPT !.action = action, !.amount = amount]
       IN  IF u = NoUser \/ action = "" \/ amount <= 0
             THEN /\ th' = [th EXCEPT ![t] = Finish(req, "InvalidParameters")]
                  /\ ghost' = ghost
             ELSE LET dec == UpdateDecision(balances, u, action, amount)
                  IN  IF dec.result = "ok"
                        THEN /\ th' = [th EXCEPT ![t] =
                                         [req EXCEPT !.pc = "upd_save", !.bal = dec.doc,
                                                     !.oldBalance = get_user_balance(balances, u)]]
                             /\ ghost' = ghost
                        ELSE /\ th' = [th EXCEPT ![t] = Finish(req, dec.result)]
                             /\ ghost' = GhostAdjust(ghost, u, action, amount, dec.result)
    /\ UNCHANGED <<balances, stock, games, lock, nextId, logs, locked>>

UpdateSave(t) ==
    /\ th[t].pc = "upd_save"
    /\ balances' = th[t].bal
    /\ th' = [th EXCEPT ![t] = Finish([@ EXCEPT !.wrote = @ \cup {"balances"}], "ok")]
    /\ ghost' = GhostAdjust(ghost, th[t].user, th[t].action, th[t].amount, "ok")
    /\ UNCHANGED <<stock, games, lock, nreq, nextId, logs, locked>>

\* ------------------------- /setbalance, /addbalance, /removebalance (the bot)
\* set_balance, add_balance, remove_balance of main.py on the loaded document.
AdminDecision(doc, cmd, u, amount) ==
    IF cmd = "setbalance"
      THEN [result |-> "ok", doc |-> SetBalance(WithUser(doc, u), u, amount)]
    ELSE IF cmd = "addbalance"
      THEN LET d == WithUser(doc, u)
           IN  [result |-> "ok",
                doc |-> Put(d, u, BalanceRecord(d[u].balance + amount,
                                                d[u].totalRecharge + amount))]
    ELSE IF u \notin DOMAIN doc
      THEN [result |-> "UserNotFound", doc |-> doc]
      ELSE [result |-> "ok", doc |-> SetBalance(doc, u, Max(0, doc[u].balance - amount))]

\* the action name each command passes to log_action
AdminLogName(cmd) ==
    IF cmd = "setbalance" THEN "SET_BALANCE"
    ELSE IF cmd = "addbalance" THEN "ADD_BALANCE" ELSE "REMOVE_BALANCE"

AdminBalance(cmd, u, amount) ==
    /\ CanStart(BotThread)
    /\ nreq' = nreq + 1
    /\ LET req == [Fresh(cmd, u) EXCEPT !.amount = amount,
                                         !.oldBalance = get_user_balance(balances, u)]
           dec == AdminDecision(balances, cmd, u, amount)
       IN  IF dec.result = "ok"
             THEN th' = [th EXCEPT ![BotThread] = [req EXCEPT !.pc = "adm_save", !.bal = dec.doc]]
             ELSE th' = [th EXCEPT ![BotThread] = Finish(req, dec.result)]
    /\ UNCHANGED <<balances, stock, games, lock, nextId, logs, ghost, locked>>

AdminSave ==
    /\ th[BotThread].pc = "adm_save"
    /\ balances' = th[BotThread].bal
    /\ th' = [th EXCEPT ![BotThread] =
                ThenLog([@ EXCEPT !.wrote = @ \cup {"balances"}], AdminLogName(@.op), "ok")]
    /\ UNCHANGED <<stock, games, lock, nreq, nextId, logs, ghost, locked>>

\* ------------------------------------------------------------- the stock list
\* remove_shop_products_by_ids looking for the first requested id only
remove_shop_products_by_ids_FirstOnly(products, ids) ==
    LET id_set == IF ids = <<>> THEN {} ELSE {ids[1]}
        removed == SelectSeq(products, LAMBDA p: p.id \in id_set)
    IN  [removed |-> removed,
         remaining |-> SelectSeq(products, LAMBDA p: p.id \notin id_set),
         missing |-> SelectSeq(ids, LAMBDA i: i \notin {removed[k].id : k \in 1..Len(removed)})]

\* remove_shop_products_by_ids on the loaded list: the removed products, the
\* list to write back, and the requested ids no product carried.
remove_shop_products_by_ids(products, ids) ==
    LET id_set == Range(ids)
        removed == SelectSeq(products, LAMBDA p: p.id \in id_set)
        remaining == SelectSeq(products, LAMBDA p: p.id \notin id_set)
        removed_ids == {removed[i].id : i \in 1..Len(removed)}
    IN  [removed |-> removed,
         remaining |-> remaining,
         missing |-> SelectSeq(ids, LAMBDA i: i \notin removed_ids)]

\* ------------------------------------ /api/purchase/checkout (purchase_checkout)
\* The items the loop of purchase_checkout keeps: the others are skipped.
CheckoutItems(items) ==
    SelectSeq(items, LAMBDA it: it.productId # NoProduct /\ it.price > 0)

ProductIds(items) == [i \in 1..Len(items) |-> items[i].productId]

\* purchase_checkout without its balance check
FundsCover_Skipped(old_balance, total_amount) == TRUE

\* 1) Validate user balance: old_balance < total_amount rejects
FundsCover(old_balance, total_amount) == ~(old_balance < total_amount)

\* purchase_checkout charging without looking at missing_ids
AfterRemoval_ChargeAnyway(rec) ==
    [rec EXCEPT !.pc = "co_charge",
                !.bal = SetBalance(rec.bal, rec.user, rec.oldBalance - rec.total)]

\* What follows the removal from stock: the 409 answers, or the charge.
AfterRemoval(rec) ==
    IF rec.missing # <<>>
      THEN Finish(rec, "ItemsNoLongerAvailable")
    ELSE IF Len(rec.removed) # Len(rec.ids)
      THEN Finish(rec, "ProductMismatch")
      ELSE [rec EXCEPT !.pc = "co_charge",
                       !.bal = SetBalance(rec.bal, rec.user, rec.oldBalance - rec.total)]

Checkout(t, u, items) ==
    /\ t \in Workers
    /\ CanStart(t)
    /\ nreq' = nreq + 1
    /\ LET req == [Fresh("checkout", u) EXCEPT !.items = items]
           kept == CheckoutItems(items)
           total == SumPrices(kept)
           d == WithUser(balances, u)
       IN  IF u = NoUser \/ items = <<>>
             THEN th' = [th EXCEPT ![t] = Finish(req, "InvalidParameters")]
           ELSE IF kept = <<>> \/ total <= 0
             THEN th' = [th EXCEPT ![t] = Finish(req, "InvalidCheckoutItems")]
           ELSE IF ~FundsCover(d[u].balance, total)
             THEN th' = [th EXCEPT ![t] = Finish(req, "InsufficientBalance")]
             ELSE th' = [th EXCEPT ![t] =
                           [req EXCEPT !.pc = "co_stock", !.bal = d,
                                       !.oldBalance = d[u].balance,
                                       !.total = total, !.ids = ProductIds(kept)]]
    /\ UNCHANGED <<balances, stock, games, lock, nextId, logs, ghost, locked>>

\* 2) get_shop_products inside remove_shop_products_by_ids
CheckoutLoadStock(t) ==
    /\ th[t].pc = "co_stock"
    /\ LET r == remove_shop_products_by_ids(stock, th[t].ids)
           rec == [th[t] EXCEPT !.removed = r.removed, !.missing = r.missing,
                                !.stk = r.remaining]
       IN  IF r.removed # <<>>
             THEN th' = [th EXCEPT ![t] = [rec EXCEPT !.pc = "co_save_stock"]]
             ELSE th' = [th EXCEPT ![t] = AfterRemoval(rec)]
    /\ UNCHANGED <<balances, stock, games, lock, nreq, nextId, logs, ghost, locked>>

\* save_shop_products(remaining_products), then the checks on what was removed
CheckoutSaveStock(t) ==
    /\ th[t].pc = "co_save_stock"
    /\ stock' = th[t].stk
    /\ th' = [th EXCEPT ![t] = AfterRemoval([@ EXCEPT !.wrote = @ \cup {"stock"}])]
    /\ UNCHANGED <<balances, games, lock, nreq, nextId, logs, ghost, locked>>

\* 3) Charge balance after stock lock-in: save_balances(balances)
CheckoutCharge(t) ==
    /\ th[t].pc = "co_charge"
    /\ balances' = th[t].bal
    /\ th' = [th EXCEPT ![t] = ThenLog([@ EXCEPT !.wrote = @ \cup {"balances"}], "CHECKOUT", "ok")]
    /\ UNCHANGED <<stock, games, lock, nreq, nextId, logs, ghost, locked>>

\* ------------------------------------------------------------ the wager engine
\* One shape for the entries of both games; a blackjack entry keeps its
\* creatorScore / opponentScore in creatorRoll / opponentRoll.
ActiveKey(g) == IF g = "dice" THEN "dice_bets" ELSE "blackjack_matches"

HistoryKey(g) == IF g = "dice" THEN "dice_history" ELSE "blackjack_history"

NewWager(id, creator, amount) ==
    [id |-> id, creator |-> creator, opponent |-> NoUser,
     amount |-> amount,            \* f"{amount:.2f}" of a rounded amount
     status |-> "waiting", creatorDebited |-> TRUE,
     creatorRoll |-> 0, opponentRoll |-> 0, winner |-> NoUser,
     creatorPayout |-> 0, opponentPayout |-> 0,
     creatorBalanceAfter |-> 0, opponentBalanceAfter |-> 0]

\* A lookup that takes the first entry whatever id is asked for.
IndexOf_First(list, id) == IF Len(list) > 0 THEN 1 ELSE 0

\* next((i for i, b in enumerate(list) if b.get("id") == id), -1), 1-based; 0: none
IndexOf(list, id) ==
    IF \E i \in 1..Len(list) : list[i].id = id
      THEN CHOOSE i \in 1..Len(list) :
             list[i].id = id /\ \A j \in 1..(i - 1) : list[j].id # id
      ELSE 0

\* A removal that removes nothing.
Pop_Nothing(list, idx) == list

Pop(list, idx) == SubSeq(list, 1, idx - 1) \o SubSeq(list, idx + 1, Len(list))

\* the creation routes taking any stake
StakeInRange_Any(amount) == TRUE

\* amount < 1 or amount > 25 is rejected
StakeInRange(amount) == amount >= MinStake * Dollar /\ amount <= MaxStake * Dollar

\* A duplicate check that never finds the pending entry.
HasWaiting_Never(list, g, creator) == FALSE

\* The creator already has a waiting entry (the dice check also looks at opponent).
HasWaiting(list, g, creator) ==
    \E i \in 1..Len(list) :
        /\ list[i].status = "waiting"
        /\ \/ list[i].creator = creator
           \/ g = "dice" /\ list[i].opponent = creator

\* api_create_dice_bet / api_create_blackjack_match inside GAMES_LOCK.
CreateDecision(gms, doc, g, id, creator, amount) ==
    LET d == ensure_balance_user(doc, creator)
    IN  IF HasWaiting(gms[ActiveKey(g)], g, creator)
          THEN [result |-> "DuplicateActiveWager", doc |-> doc, gms |-> gms]
        ELSE IF d[creator].balance < amount
          THEN [result |-> "InsufficientBalance", doc |-> doc, gms |-> gms]
          ELSE [result |-> "ok",
                doc |-> SetBalance(d, creator, as_money(d[creator].balance - amount)),
                gms |-> [gms EXCEPT ![ActiveKey(g)] =
                                       Append(@, NewWager(id, creator, amount))]]

\* A cancel that does not look at who asks.
CancelDecision_AnyCaller(gms, doc, g, id, username) ==
    LET list == gms[ActiveKey(g)]
        idx == IndexOf(list, id)
    IN  IF idx = 0
          THEN [result |-> "NotFound", doc |-> doc, gms |-> gms]
          ELSE LET d == ensure_balance_user(doc, username)
               IN  [result |-> "ok",
                    doc |-> SetBalance(d, username,
                                       as_money(d[username].balance + as_money(list[idx].amount))),
                    gms |-> [gms EXCEPT ![ActiveKey(g)] = Pop(list, idx)]]

\* api_cancel_dice_bet / api_cancel_blackjack_match inside GAMES_LOCK.
CancelDecision(gms, doc, g, id, username) ==
    LET list == gms[ActiveKey(g)]
        idx == IndexOf(list, id)
    IN  IF idx = 0
          THEN [result |-> "NotFound", doc |-> doc, gms |-> gms]
        ELSE IF list[idx].creator # username
          THEN [result |-> "Forbidden", doc |-> doc, gms |-> gms]
        ELSE IF list[idx].status # "waiting"
          THEN [result |-> "InvalidState", doc |-> doc, gms |-> gms]
          ELSE LET amount == as_money(list[idx].amount)
                   d == ensure_balance_user(doc, username)
               IN  [result |-> "ok",
                    doc |-> IF list[idx].creatorDebited
                              THEN SetBalance(d, username, as_money(d[username].balance + amount))
                              ELSE d,
                    gms |-> [gms EXCEPT ![ActiveKey(g)] = Pop(list, idx)]]

\* Dice: the higher roll wins, equal rolls tie.
DiceWinner(creator, opponent, creator_roll, opponent_roll) ==
    IF creator_roll > opponent_roll THEN creator
    ELSE IF opponent_roll > creator_roll THEN opponent
    ELSE "tie"

\* Blackjack: a score above 21 is a bust.
BlackjackWinner(creator, opponent, creator_score, opponent_score) ==
    LET creator_bust == creator_score > BustLimit
        opponent_bust == opponent_score > BustLimit
    IN  IF creator_bust /\ opponent_bust THEN "tie"
        ELSE IF creator_bust THEN opponent
        ELSE IF opponent_bust THEN creator
        ELSE IF creator_score > opponent_score THEN creator
        ELSE IF opponent_score > creator_score THEN opponent
        ELSE "tie"

Winner(g, creator, opponent, cr, orl) ==
    IF g = "dice" THEN DiceWinner(creator, opponent, cr, orl)
    ELSE BlackjackWinner(creator, opponent, cr, orl)

\* The payout branch: [creator_payout, opponent_payout].
Payouts(winner, creator_username, opponent, amount) ==
    IF winner = creator_username
      THEN [creator |-> as_money(amount * 2), opponent |-> 0]
    ELSE IF winner = opponent
      THEN [creator |-> 0, opponent |-> as_money(amount * 2)]
      ELSE \* amount * 0.5: exact for the even-cent stakes the model draws
           [creator |-> as_money(amount \div 2), opponent |-> as_money(amount \div 2)]

\* A payout that is recorded but not credited.
Credit_Nothing(doc, u, payout) == doc

Credit(doc, u, payout) ==
    IF payout = 0 THEN doc ELSE SetBalance(doc, u, as_money(doc[u].balance + payout))

\* A history that is never cut.
Newest_Unbounded(hist) == hist

\* state["dice_history"][:100]
Newest(hist) == SubSeq(hist, 1, IF Len(hist) < HistoryCap THEN Len(hist) ELSE HistoryCap)

\* api_accept_dice_bet / api_join_blackjack_match inside GAMES_LOCK, with the
\* two random draws cr and orl.
AcceptDecision(gms, doc, g, id, opponent, cr, orl) ==
    LET list == gms[ActiveKey(g)]
        idx == IndexOf(list, id)
        keep == [result |-> "NotFound", doc |-> doc, gms |-> gms]
    IN  IF idx = 0 THEN keep
        ELSE IF list[idx].status # "waiting" THEN [keep EXCEPT !.result = "InvalidState"]
        ELSE IF list[idx].creator = opponent THEN [keep EXCEPT !.result = "SelfMatch"]
        ELSE
          LET bet == list[idx]
              amount == as_money(bet.amount)
              creator == bet.creator
              d0 == ensure_balance_user(ensure_balance_user(doc, creator), opponent)
          IN  IF ~bet.creatorDebited /\ d0[creator].balance < amount
                THEN [result |-> "CreatorInsufficient", doc |-> doc,
                      gms |-> [gms EXCEPT ![ActiveKey(g)] = Pop(list, idx)]]
              ELSE
                LET d1 == IF bet.creatorDebited THEN d0
                          ELSE SetBalance(d0, creator, as_money(d0[creator].balance - amount))
                IN  IF d1[opponent].balance < amount
                      THEN [keep EXCEPT !.result = "InsufficientBalance"]
                      ELSE
                        LET d2 == SetBalance(d1, opponent, as_money(d1[opponent].balance - amount))
                            winner == Winner(g, creator, opponent, cr, orl)
                            pay == Payouts(winner, creator, opponent, amount)
                            d3 == Credit(Credit(d2, creator, pay.creator), opponent, pay.opponent)
                            completed ==
                              [bet EXCEPT !.creatorDebited = TRUE,
                                          !.opponent = opponent, !.status = "completed",
                                          !.creatorRoll = cr, !.opponentRoll = orl,
                                          !.winner = winner,
                                          !.creatorPayout = pay.creator,
                                          !.opponentPayout = pay.opponent,
                                          !.creatorBalanceAfter = d3[creator].balance,
                                          !.opponentBalanceAfter = d3[opponent].balance]
                            hist == <<completed>> \o gms[HistoryKey(g)]
                        IN  [result |-> "ok", doc |-> d3,
                             gms |-> [gms EXCEPT
                                        ![ActiveKey(g)] = Pop(list, idx),
                                        ![HistoryKey(g)] = Newest(hist)]]

\* A wager handler that does not hold GAMES_LOCK over its writes.
WagerEnter_Unlocked(t, req, dec) ==
    /\ lock' = lock
    /\ IF dec.result = "ok"
         THEN th' = [th EXCEPT ![t] = [req EXCEPT !.pc = "wg_save_bal", !.result = "ok",
                                                  !.bal = dec.doc, !.gms = dec.gms]]
       ELSE IF dec.result = "CreatorInsufficient"
         THEN th' = [th EXCEPT ![t] = [req EXCEPT !.pc = "wg_void", !.result = dec.result,
                                                  !.gms = dec.gms]]
         ELSE th' = [th EXCEPT ![t] = Finish(req, dec.result)]

\* A wager handler takes GAMES_LOCK, loads both documents and decides; a
\* rejection releases the lock at once, otherwise the writes follow.
WagerEnter(t, req, dec) ==
    IF dec.result = "ok"
      THEN /\ th' = [th EXCEPT ![t] = [req EXCEPT !.pc = "wg_save_bal", !.result = "ok",
                                                  !.bal = dec.doc, !.gms = dec.gms]]
           /\ lock' = t
    ELSE IF dec.result = "CreatorInsufficient"
      THEN /\ th' = [th EXCEPT ![t] = [req EXCEPT !.pc = "wg_void", !.result = dec.result,
                                                  !.gms = dec.gms]]
           /\ lock' = t
      ELSE /\ th' = [th EXCEPT ![t] = Finish(req, dec.result)]
           /\ lock' = lock

Create(t, g, creator, amount) ==
    /\ t \in Workers
    /\ CanStart(t)
    /\ nreq' = nreq + 1
    /\ LET a == as_money(amount)
           req == [Fresh("create", creator) EXCEPT !.action = g, !.amount = a, !.wid = nextId]
       IN  IF creator = NoUser \/ ~StakeInRange(a)
             THEN /\ th' = [th EXCEPT ![t] = Finish(req, "InvalidParameters")]
                  /\ UNCHANGED <<lock, nextId, ghost>>
             ELSE /\ lock = NoLock
                  /\ LET dec == CreateDecision(games, balances, g, nextId, creator, a)
                     IN  /\ WagerEnter(t, req, dec)
                         /\ nextId' = IF dec.result = "ok" THEN nextId + 1 ELSE nextId
                         /\ ghost' = IF dec.result = "ok"
                                       THEN [ghost EXCEPT !.stake =
                                               Put(@, nextId,
                                                   [before |-> get_user_balance(balances, creator),
                                                    after |-> dec.doc[creator].balance])]
                                       ELSE ghost
    /\ UNCHANGED <<balances, stock, games, logs, locked>>

Cancel(t, g, id, username) ==
    /\ t \in Workers
    /\ CanStart(t)
    /\ nreq' = nreq + 1
    /\ LET req == [Fresh("cancel", username) EXCEPT !.action = g, !.wid = id]
       IN  IF id = 0 \/ username = NoUser
             THEN /\ th' = [th EXCEPT ![t] = Finish(req, "InvalidParameters")]
                  /\ lock' = lock
             ELSE /\ lock = NoLock
                  /\ WagerEnter(t, req, CancelDecision(games, balances, g, id, username))
    /\ UNCHANGED <<balances, stock, games, nextId, logs, ghost, locked>>

Accept(t, g, id, opponent, cr, orl) ==
    /\ t \in Workers
    /\ CanStart(t)
    /\ nreq' = nreq + 1
    /\ LET req == [Fresh("accept", opponent) EXCEPT !.action = g, !.wid = id]
       IN  IF id = 0 \/ opponent = NoUser
             THEN /\ th' = [th EXCEPT ![t] = Finish(req, "InvalidParameters")]
                  /\ lock' = lock
             ELSE /\ lock = NoLock
                  /\ WagerEnter(t, req, AcceptDecision(games, balances, g, id, opponent, cr, orl))
    /\ UNCHANGED <<balances, stock, games, nextId, logs, ghost, locked>>

\* save_balances(balances)
WagerSaveBalances(t) ==
    /\ th[t].pc = "wg_save_bal"
    /\ balances' = th[t].bal
    /\ th' = [th EXCEPT ![t] = [@ EXCEPT !.pc = "wg_save_games", !.wrote = @ \cup {"balances"}]]
    /\ UNCHANGED <<stock, games, lock, nreq, nextId, logs, ghost, locked>>

\* The ids of the entries of a list of wagers.
IdsOf(list) == {list[i].id : i \in 1..Len(list)}

\* History of the wagers, kept when games.json goes from old to new: the ids
\* that left an active list, and each history entry as it was first written.
GhostGames(gh, old, new) ==
    LET left == UNION {IdsOf(old[k]) \ IdsOf(new[k]) : k \in {"dice_bets", "blackjack_matches"}}
        added == {e \in UNION {Range(new[k]) : k \in {"dice_history", "blackjack_history"}} :
                    e.id \notin DOMAIN gh.resolved}
    IN  [gh EXCEPT
           !.gone = @ \cup left,
           !.resolved = [i \in (DOMAIN @) \cup {e.id : e \in added} |->
                           IF i \in DOMAIN @ THEN @[i]
                           ELSE CHOOSE e \in added : e.id = i]]

\* save_games_state(state); leaving the with block releases GAMES_LOCK
WagerSaveGames(t) ==
    /\ th[t].pc \in {"wg_save_games", "wg_void"}
    /\ games' = th[t].gms
    /\ lock' = NoLock
    /\ th' = [th EXCEPT ![t] = [@ EXCEPT !.pc = "done", !.wrote = @ \cup {"games"}]]
    /\ ghost' = GhostGames(ghost, games, th[t].gms)
    /\ UNCHANGED <<balances, stock, nreq, nextId, logs, locked>>

\* ------------------------------------------------------ inputs and initial states
StockOf(n) == [i \in 1..n |-> [id |-> i, key |-> i, price |-> 5 * Dollar]]

Item(id) == [productId |-> id, price |-> 5 * Dollar]

\* ids a checkout may name: those of the initial stock and one never in stock
RequestIds == 1..(MaxStock + 1)

CheckoutLists ==
    {<<Item(a)>> : a \in RequestIds}
      \cup {<<Item(a), Item(b)>> : a, b \in RequestIds}
      \cup {<<>>, <<[productId |-> 1, price |-> 0]>>,
            <<Item(1), [productId |-> NoProduct, price |-> 5 * Dollar]>>}

Buyers == {"alice", "bob"}

\* balances.json after earlier whole-dollar recharges
Funded ==
    [u \in Buyers |-> IF u = "alice" THEN BalanceRecord(12 * Dollar, 12 * Dollar)
                      ELSE BalanceRecord(6 * Dollar, 6 * Dollar)]

InitWith(b, s) ==
    /\ balances = b
    /\ stock \in s
    /\ games = EmptyGames
    /\ lock = NoLock
    /\ th = [t \in Threads |-> Idle]
    /\ nreq = 0
    /\ nextId = 1
    /\ logs = <<>>
    /\ locked = FALSE
    /\ ghost = GhostInit

\* No request is in progress: the next one runs alone.
Quiet == \A t \in Threads : th[t].pc = "done"

\* ----------------------------------------------------------------- checkout
InitCheckout == InitWith(Funded, {StockOf(n) : n \in 0..MaxStock})

CheckoutSteps ==
    \E t \in Workers : \/ CheckoutLoadStock(t) \/ CheckoutSaveStock(t) \/ CheckoutCharge(t)
                       \/ LogLoad(t) \/ LogSave(t)

\* Checkouts one after the other.
NextCheckoutSeq ==
    \/ Quiet /\ \E u \in Users \cup {NoUser}, items \in CheckoutLists : Checkout("w1", u, items)
    \/ CheckoutSteps

SpecCheckoutSeq == InitCheckout /\ [][NextCheckoutSeq]_vars

\* Checkouts of two request threads, interleaved at each file access.
NextCheckout ==
    \/ \E t \in Workers, u \in Buyers, items \in CheckoutLists : Checkout(t, u, items)
    \/ CheckoutSteps

SpecCheckout == InitCheckout /\ [][NextCheckout]_vars

\* ------------------------------------------------------- checkout: properties
IsCheckout(t) == th[t].pc = "done" /\ th[t].op = "checkout"

\* The request of thread t has returned and no request has started since.
Latest(t) == th[t].pc = "done" /\ th[t].seq = nreq

\* The product ids a checkout request asks for.
Requested(t) == Range(ProductIds(CheckoutItems(th[t].items)))

StockIds(products) == {products[i].id : i \in 1..Len(products)}

\* The request passed validation and the balance check: it reached the stock.
ReachedStock(t) ==
    th[t].result \notin {"InvalidParameters", "InvalidCheckoutItems", "InsufficientBalance"}

\* C1: two checkouts that both arrive while the single stock item is still
\* there, each buyer able to pay: exactly one succeeds and the other is
\* rejected with ItemsNoLongerAvailable (so one removal, one charge).
C1_OneCheckoutWins ==
    \A t1, t2 \in Workers :
        ( /\ t1 # t2
          /\ IsCheckout(t1) /\ IsCheckout(t2)
          /\ th[t1].items = <<Item(1)>> /\ th[t2].items = <<Item(1)>>
          /\ th[t1].preStock = StockOf(1) /\ th[t2].preStock = StockOf(1)
          /\ th[t1].result = "ok" )
        => /\ th[t2].result = "ItemsNoLongerAvailable"
           /\ "balances" \notin th[t2].wrote

\* C2: a checkout that fails leaves the stock list and the balances as they
\* were when the request arrived.
C2_FailedCheckoutChangesNothing ==
    \A t \in Workers :
        (IsCheckout(t) /\ Latest(t) /\ th[t].result # "ok")
        => (stock = th[t].preStock /\ balances = th[t].preBal)

\* C3: a checkout that reaches the stock while one of its product ids is not
\* in stock fails with ItemsNoLongerAvailable and the balances are unchanged.
C3_MissingIdNoCharge ==
    \A t \in Workers :
        ( /\ IsCheckout(t) /\ Latest(t)
          /\ ReachedStock(t)
          /\ ~(Requested(t) \subseteq StockIds(th[t].preStock)) )
        => /\ th[t].result = "ItemsNoLongerAvailable"
           /\ balances = th[t].preBal

\* C3 witness: a funded checkout was rejected because an id was not in stock,
\* while another id it asked for was.
C3_Witness ==
    \E t \in Workers :
        /\ IsCheckout(t)
        /\ th[t].result = "ItemsNoLongerAvailable"
        /\ ~(Requested(t) \subseteq StockIds(th[t].preStock))
        /\ Requested(t) \cap StockIds(th[t].preStock) # {}

\* C4: a checkout whose total exceeds the balance fails with
\* InsufficientBalance, every product still in stock, the balances unchanged.
C4_InsufficientTouchesNothing ==
    \A t \in Workers :
        ( /\ IsCheckout(t) /\ Latest(t)
          /\ th[t].result \notin {"InvalidParameters", "InvalidCheckoutItems"}
          /\ get_user_balance(th[t].preBal, th[t].user)
                 < SumPrices(CheckoutItems(th[t].items)) )
        => /\ th[t].result = "InsufficientBalance"
           /\ stock = th[t].preStock
           /\ balances = th[t].preBal
           /\ th[t].wrote = {}

\* C4 witness: an underfunded checkout of products that are in stock was rejected.
C4_Witness ==
    \E t \in Workers :
        /\ IsCheckout(t)
        /\ th[t].result = "InsufficientBalance"
        /\ Requested(t) # {}
        /\ Requested(t) \subseteq StockIds(stock)
        /\ get_user_balance(balances, th[t].user) > 0

\* ------------------------------------------------------------------- ledger
LedgerUsers == {"alice", "bob"}

\* amounts of the HTTP adjust calls: 3.00, 5.004 (float(amount) is not
\* rounded), and 0, which validation rejects
AdjustAmounts == {0, 3 * Dollar, 5 * Dollar + 2}

\* amounts of the bot commands: float(args[1]) takes any sign
AdminAmounts == {0 - Dollar, 4 * Dollar}

InitEmpty == InitWith(EmptyDoc, {StockOf(0)})

\* HTTP adjust calls and balance reads, one after the other.
NextAdjust ==
    \/ Quiet /\ \E u \in LedgerUsers, a \in {"add", "subtract"}, m \in AdjustAmounts :
                   UpdateBalance("w1", u, a, m)
    \/ Quiet /\ \E u \in LedgerUsers : ReadBalance("w1", u)
    \/ UpdateSave("w1")

SpecAdjust == InitEmpty /\ [][NextAdjust]_vars

\* HTTP adjust calls of two request threads, interleaved at each file access.
NextLedger ==
    \/ \E t \in Workers, u \in LedgerUsers, a \in {"add", "subtract"}, m \in AdjustAmounts :
           UpdateBalance(t, u, a, m)
    \/ \E t \in Workers : UpdateSave(t)

SpecLedger == InitEmpty /\ [][NextLedger]_vars

\* Register, read, HTTP adjust and the bot's balance commands, one after the other.
NextBalance ==
    \/ Quiet /\ \E u \in LedgerUsers \cup {NoUser} : Register("w1", u)
    \/ Quiet /\ \E u \in LedgerUsers : ReadBalance("w1", u)
    \/ Quiet /\ \E u \in LedgerUsers, a \in {"add", "subtract", "refund"}, m \in AdjustAmounts :
                   UpdateBalance("w1", u, a, m)
    \/ Quiet /\ \E c \in {"setbalance", "addbalance", "removebalance"},
                   u \in LedgerUsers, m \in AdminAmounts : AdminBalance(c, u, m)
    \/ RegisterSave("w1")
    \/ UpdateSave("w1")
    \/ AdminSave
    \/ LogSteps

SpecBalance == InitEmpty /\ [][NextBalance]_vars

\* --------------------------------------------------------- ledger: properties
\* C5: once every request has returned, each balance is what the accepted
\* credits and debits add up to (their result in any serial order): none is lost.
C5_NoLostUpdate ==
    Quiet => \A u \in LedgerUsers : get_user_balance(balances, u) = ghost.accepted[u]

\* C6: every persisted balance is >= 0.
C6_BalanceNeverNegative ==
    \A u \in DOMAIN balances : balances[u].balance >= 0

IsDone(t, op) == th[t].pc = "done" /\ th[t].op = op

\* An HTTP subtract that passed validation with an amount above the balance.
OverdrawnSubtract(t) ==
    /\ IsDone(t, "update") /\ th[t].action = "subtract"
    /\ th[t].result # "InvalidParameters"
    /\ th[t].amount > get_user_balance(th[t].preBal, th[t].user)

\* A /removebalance of a known user with an amount above the balance.
OverdrawnRemove ==
    /\ IsDone(BotThread, "removebalance")
    /\ th[BotThread].user \in DOMAIN th[BotThread].preBal
    /\ th[BotThread].amount > get_user_balance(th[BotThread].preBal, th[BotThread].user)

\* C7 as stated: every debit above the balance, the HTTP subtract and the
\* bot's /removebalance alike, fails as insufficient and changes no balance.
C7_EveryOverdraftRejected ==
    /\ \A t \in Workers : (OverdrawnSubtract(t) /\ Latest(t)) =>
           (th[t].result = "InsufficientBalance" /\ balances = th[t].preBal)
    /\ (OverdrawnRemove /\ Latest(BotThread)) =>
           (th[BotThread].result = "InsufficientBalance" /\ balances = th[BotThread].preBal)

\* C7 amended: an HTTP subtract above the balance fails as insufficient and
\* changes no balance; /removebalance above the balance succeeds and leaves
\* the user's balance at 0, every other record as it was.
C7_SubtractRejectedRemoveClamps ==
    /\ \A t \in Workers : OverdrawnSubtract(t) =>
           /\ th[t].result = "InsufficientBalance"
           /\ Latest(t) => balances = th[t].preBal
    /\ (OverdrawnRemove /\ Latest(BotThread)) =>
           /\ th[BotThread].result = "ok"
           /\ balances = SetBalance(th[BotThread].preBal, th[BotThread].user, 0)

\* C7 witness: an HTTP subtract above a positive balance was rejected, and a
\* /removebalance above a positive balance has just run.
C7_Witness ==
    /\ Latest(BotThread)
    /\ OverdrawnSubtract("w1")
    /\ get_user_balance(th["w1"].preBal, th["w1"].user) > 0
    /\ OverdrawnRemove
    /\ get_user_balance(th[BotThread].preBal, th[BotThread].user) > 0

\* C8 as stated: the balance read equals credits minus debits with the
\* running sum clamped at 0 by each debit.
C8_ReadIsClampedSum ==
    \A t \in Workers :
        (IsDone(t, "get_balance") /\ Latest(t)) => th[t].value = ghost.clamped[th[t].user]

\* C8 amended: the balance read equals the credits minus the debits that were
\* accepted (a debit above the balance is rejected and counts for nothing),
\* exactly, and is never below 0.
C8_ReadIsAcceptedSum ==
    \A t \in Workers :
        (IsDone(t, "get_balance") /\ Latest(t)) =>
            /\ th[t].value = ghost.accepted[th[t].user]
            /\ th[t].value >= 0

\* C8 witness: a balance read after a credit and a rejected debit.
C8_Witness ==
    \E t \in Workers :
        /\ IsDone(t, "get_balance")
        /\ th[t].value > 0
        /\ ghost.accepted[th[t].user] # ghost.clamped[th[t].user]

\* ------------------------------------------------------------------- wagers
GameTypes == {"dice", "blackjack"}

Draws(g) == IF g = "dice" THEN DiceLow..DiceHigh ELSE ScoreLow..ScoreHigh

\* the stake the model's create calls name: 5.00
Stakes == {5 * Dollar}

\* balances.json of the scenario: alice 10.00, bob 8.00, and a user named "tie"
WagerFunded ==
    [u \in Users |-> IF u = "alice" THEN BalanceRecord(10 * Dollar, 10 * Dollar)
                     ELSE BalanceRecord(8 * Dollar, 8 * Dollar)]

InitWager == InitWith(WagerFunded, {StockOf(0)})

WagerIds == 1..MaxRequests

\* Wager calls and HTTP credits of 0.004, one after the other.
NextWager ==
    \/ Quiet /\ \E u \in Users : UpdateBalance("w1", u, "add", 2)
    \/ Quiet /\ \E g \in GameTypes, u \in Users, m \in Stakes : Create("w1", g, u, m)
    \/ Quiet /\ \E g \in GameTypes, i \in WagerIds, u \in Users : Cancel("w1", g, i, u)
    \/ Quiet /\ \E g \in GameTypes, i \in WagerIds, u \in Users :
                   \E cr \in Draws(g), orl \in Draws(g) : Accept("w1", g, i, u, cr, orl)
    \/ UpdateSave("w1")
    \/ WagerSaveBalances("w1")
    \/ WagerSaveGames("w1")

SpecWager == InitWager /\ [][NextWager]_vars

\* --------------------------------------------------------- wagers: properties
ActiveIds(g) == {games[ActiveKey(g)][i].id : i \in 1..Len(games[ActiveKey(g)])}

\* The creator's balance was not changed between the create of wager id and
\* the request thread t has just completed.
Untouched(t, id, creator) ==
    /\ id \in DOMAIN ghost.stake
    /\ get_user_balance(th[t].preBal, creator) = ghost.stake[id].after

\* C9: a create followed by a cancel of that wager by its creator, nothing else
\* changing the creator's balance in between, leaves the balance exactly at
\* its value before the create and no such wager in the active list.
C9_CreateCancelRoundTrip ==
    \A t \in Workers :
        ( /\ IsDone(t, "cancel") /\ Latest(t) /\ th[t].result = "ok"
          /\ Untouched(t, th[t].wid, th[t].user) )
        => /\ get_user_balance(balances, th[t].user) = ghost.stake[th[t].wid].before
           /\ th[t].wid \notin ActiveIds(th[t].action)

\* The outcome the rules of the game give the two draws of a history entry.
Outcome(g, e) ==
    IF g = "dice"
      THEN IF e.creatorRoll > e.opponentRoll THEN "creator"
           ELSE IF e.opponentRoll > e.creatorRoll THEN "opponent" ELSE "tie"
      ELSE IF e.creatorRoll > BustLimit /\ e.opponentRoll > BustLimit THEN "tie"
           ELSE IF e.creatorRoll > BustLimit THEN "opponent"
           ELSE IF e.opponentRoll > BustLimit THEN "creator"
           ELSE IF e.creatorRoll > e.opponentRoll THEN "creator"
           ELSE IF e.opponentRoll > e.creatorRoll THEN "opponent" ELSE "tie"

\* Net change of both sides over the wager that accept request t resolved:
\* the creator's from before the create, the opponent's from before the accept.
NetOf(t) ==
    LET e == games[HistoryKey(th[t].action)][1]
    IN  [creator |-> get_user_balance(balances, e.creator) - ghost.stake[e.id].before,
         opponent |-> get_user_balance(balances, e.opponent)
                        - get_user_balance(th[t].preBal, e.opponent),
         amount |-> e.amount,
         creatorPayout |-> e.creatorPayout,
         opponentPayout |-> e.opponentPayout,
         outcome |-> Outcome(th[t].action, e)]

\* C10: on resolution the winner nets +amount (credited 2 x amount) and the
\* loser -amount; on a tie each side nets -amount/2 (credited amount/2).
C10_PayoutConservation ==
    \A t \in Workers :
        ( /\ IsDone(t, "accept") /\ Latest(t) /\ th[t].result = "ok"
          /\ Untouched(t, th[t].wid, games[HistoryKey(th[t].action)][1].creator) )
        => LET n == NetOf(t)
           IN  /\ n.outcome = "creator" =>
                     /\ n.creator = n.amount /\ n.opponent = 0 - n.amount
                     /\ n.creatorPayout = 2 * n.amount /\ n.opponentPayout = 0
               /\ n.outcome = "opponent" =>
                     /\ n.opponent = n.amount /\ n.creator = 0 - n.amount
                     /\ n.opponentPayout = 2 * n.amount /\ n.creatorPayout = 0
               /\ n.outcome = "tie" =>
                     /\ 2 * n.creator = 0 - n.amount /\ 2 * n.opponent = 0 - n.amount
                     /\ 2 * n.creatorPayout = n.amount /\ 2 * n.opponentPayout = n.amount

\* ------------------------------------------------- wagers: create and cancel
\* Creates and cancels of both games on the two request threads, interleaved
\* as GAMES_LOCK allows.
NextCreate ==
    \/ \E t \in Workers, g \in GameTypes, u \in LedgerUsers, m \in Stakes : Create(t, g, u, m)
    \/ \E t \in Workers, g \in GameTypes, i \in WagerIds, u \in LedgerUsers : Cancel(t, g, i, u)
    \/ \E t \in Workers : WagerSaveBalances(t)
    \/ \E t \in Workers : WagerSaveGames(t)

SpecCreate == InitWager /\ [][NextCreate]_vars

\* The waiting entries of creator in the active list of game g.
WaitingOf(gms, g, creator) ==
    {i \in 1..Len(gms[ActiveKey(g)]) :
        /\ gms[ActiveKey(g)][i].status = "waiting"
        /\ gms[ActiveKey(g)][i].creator = creator}

\* Thread t has just completed a create that found a wager of its creator pending.
SecondCreate(t) ==
    /\ IsDone(t, "create")
    /\ WaitingOf(th[t].preGames, th[t].action, th[t].user) # {}

\* C11: at most one waiting wager per (creator, game type) in every reachable
\* state; a create while one is pending is rejected as a duplicate, adds no
\* wager and does not debit the creator again.
C11_OneWaitingPerCreator ==
    /\ \A g \in GameTypes, u \in Users : Cardinality(WaitingOf(games, g, u)) <= 1
    /\ \A t \in Workers :
          SecondCreate(t) =>
              /\ th[t].result = "DuplicateActiveWager"
              /\ th[t].wrote = {}
              /\ Latest(t) => games = th[t].preGames /\ balances = th[t].preBal

\* A second create was rejected while the other thread had created the
\* pending wager.
C11_Witness ==
    \E t \in Workers :
        /\ SecondCreate(t) /\ Latest(t)
        /\ th[t].result = "DuplicateActiveWager"
        /\ \E o \in Workers \ {t} : IsDone(o, "create") /\ th[o].result = "ok"
                                     /\ th[o].user = th[t].user

\* ------------------------------------------------ wagers: stakes and legacy
\* The id of a wager that an earlier version of the server left in games.json.
LegacyId == MaxRequests + 1

\* Such a wager: persisted without creatorDebited, the creator never debited.
LegacyWager(creator) ==
    [NewWager(LegacyId, creator, 5 * Dollar) EXCEPT !.creatorDebited = FALSE]

LegacyGames(g, creator) ==
    [EmptyGames EXCEPT ![ActiveKey(g)] = <<LegacyWager(creator)>>]

\* balances.json of the scenario: alice and bob hold one stake, tie less.
StakeFunded ==
    [u \in Users |-> IF u = "tie" THEN BalanceRecord(2 * Dollar, 2 * Dollar)
                     ELSE BalanceRecord(5 * Dollar, 5 * Dollar)]

InitStake ==
    /\ balances = StakeFunded
    /\ stock = StockOf(0)
    /\ games \in {EmptyGames} \cup {LegacyGames(g, c) : g \in GameTypes, c \in {"alice", "tie"}}
    /\ lock = NoLock
    /\ th = [t \in Threads |-> Idle]
    /\ nreq = 0
    /\ nextId = 1
    /\ logs = <<>>
    /\ locked = FALSE
    /\ ghost = GhostInit

\* The draws the scenario resolves with: the ends of the range, and 21.
DrawSample(g) == IF g = "dice" THEN {DiceLow, DiceHigh} ELSE {ScoreLow, BustLimit, ScoreHigh}

StakeIds == 1..LegacyId

\* Wager calls and HTTP debits of 0.004, one after the other.
NextStake ==
    \/ Quiet /\ \E u \in Users : UpdateBalance("w1", u, "subtract", 2)
    \/ Quiet /\ \E g \in GameTypes, u \in Users, m \in Stakes : Create("w1", g, u, m)
    \/ Quiet /\ \E g \in GameTypes, i \in StakeIds, u \in Users : Cancel("w1", g, i, u)
    \/ Quiet /\ \E g \in GameTypes, i \in StakeIds, u \in Users :
                   \E cr \in DrawSample(g), orl \in DrawSample(g) : Accept("w1", g, i, u, cr, orl)
    \/ UpdateSave("w1")
    \/ WagerSaveBalances("w1")
    \/ WagerSaveGames("w1")

SpecStake == InitStake /\ [][NextStake]_vars

\* The entries of the active list of game g that carry the id.
ActiveWith(gms, g, id) ==
    {i \in 1..Len(gms[ActiveKey(g)]) : gms[ActiveKey(g)][i].id = id}

\* C12: a create whose creator holds less than the stake (and has no wager
\* pending) is rejected with InsufficientFunds; no wager is added and the
\* persisted balance is unchanged.
C12_CreateNeedsFunds ==
    \A t \in Workers :
        ( /\ IsDone(t, "create")
          /\ WaitingOf(th[t].preGames, th[t].action, th[t].user) = {}
          /\ get_user_balance(th[t].preBal, th[t].user) < th[t].amount )
        => /\ th[t].result = "InsufficientBalance"
           /\ th[t].wrote = {}
           /\ Latest(t) => games = th[t].preGames /\ balances = th[t].preBal

\* C13: a successful create debits exactly the stake and leaves the new wager
\* in the active list, waiting, with creatorDebited true.
C13_CreateEscrowsStake ==
    \A t \in Workers :
        (IsDone(t, "create") /\ Latest(t) /\ th[t].result = "ok")
        => /\ get_user_balance(balances, th[t].user)
                = get_user_balance(th[t].preBal, th[t].user) - th[t].amount
           /\ \E i \in ActiveWith(games, th[t].action, th[t].wid) :
                 LET w == games[ActiveKey(th[t].action)][i]
                 IN  /\ w.status = "waiting" /\ w.creatorDebited
                     /\ w.creator = th[t].user /\ w.amount = th[t].amount

\* The wager a request names, as the active list held it when the request
\* arrived (the first entry with the id), or none.
Named(t) ==
    LET hits == ActiveWith(th[t].preGames, th[t].action, th[t].wid)
    IN  IF hits = {} THEN <<>>
        ELSE <<th[t].preGames[ActiveKey(th[t].action)]
                  [CHOOSE i \in hits : \A j \in hits : i <= j]>>

\* The request of thread t wrote nothing, and nothing has changed since it came.
ChangedNothing(t) ==
    /\ th[t].wrote = {}
    /\ Latest(t) => games = th[t].preGames /\ balances = th[t].preBal

NextResolve ==
    \/ Quiet /\ \E g \in GameTypes, u \in Users, m \in Stakes : Create("w1", g, u, m)
    \/ Quiet /\ \E g \in GameTypes, i \in StakeIds, u \in Users : Cancel("w1", g, i, u)
    \/ Quiet /\ \E g \in GameTypes, i \in StakeIds, u \in Users :
                   \E cr \in DrawSample(g), orl \in DrawSample(g) : Accept("w1", g, i, u, cr, orl)
    \/ WagerSaveBalances("w1")
    \/ WagerSaveGames("w1")

SpecResolve == InitStake /\ [][NextResolve]_vars

\* C15: accept/join of an unknown id fails NotFound, of one's own wager fails
\* SelfMatch, both changing nothing; every history entry has creator # opponent.
C15_AcceptNotFoundSelfMatch ==
    /\ \A t \in Workers :
          IsDone(t, "accept") =>
              LET n == Named(t)
              IN  /\ n = <<>> => th[t].result = "NotFound" /\ ChangedNothing(t)
                  /\ (n # <<>> /\ n[1].status = "waiting" /\ n[1].creator = th[t].user)
                        => th[t].result = "SelfMatch" /\ ChangedNothing(t)
    /\ \A g \in GameTypes : \A i \in 1..Len(games[HistoryKey(g)]) :
          games[HistoryKey(g)][i].creator # games[HistoryKey(g)][i].opponent

\* The creator tried to accept their own waiting wager and was refused, with
\* a resolved wager already in the history.
C15_Witness ==
    \E t \in Workers :
        /\ IsDone(t, "accept") /\ Latest(t)
        /\ Named(t) # <<>> /\ Named(t)[1].creator = th[t].user
        /\ th[t].result = "SelfMatch"
        /\ \E g \in GameTypes : Len(games[HistoryKey(g)]) > 0

\* Thread t has just completed an accept/join that named a waiting wager of
\* somebody else.
AcceptOfWaiting(t) ==
    /\ IsDone(t, "accept")
    /\ Named(t) # <<>>
    /\ Named(t)[1].status = "waiting"
    /\ Named(t)[1].creator # th[t].user

C18_WagerLifeCycle ==
    \A g \in GameTypes :
        /\ \A i \in 1..Len(games[ActiveKey(g)]) :
              /\ games[ActiveKey(g)][i].status = "waiting"
              /\ games[ActiveKey(g)][i].id \notin ghost.gone
              /\ games[ActiveKey(g)][i].id \notin DOMAIN ghost.resolved
        /\ \A i \in 1..Len(games[HistoryKey(g)]) :
              LET e == games[HistoryKey(g)][i]
              IN  /\ e.status = "completed"
                  /\ e.id \in ghost.gone
                  /\ e.id \in DOMAIN ghost.resolved /\ ghost.resolved[e.id] = e

\* Both transitions have happened: one wager was completed and is in a
\* history, another was created and then cancelled by its creator.
C18_Witness ==
    /\ Quiet
    /\ \E g \in GameTypes : Len(games[HistoryKey(g)]) > 0
    /\ ghost.gone \ DOMAIN ghost.resolved # {}
    /\ \E t \in Workers : IsDone(t, "cancel") /\ Latest(t) /\ th[t].result = "ok"

\* C19: a successful accept/join takes the wager out of the active list and
\* makes it the first entry of the history of its game: completed, with the
\* draws, the winner, both payouts, and both balances after resolution, which
\* are the balances the call persisted (stake debited, payout credited).
C19_ResolvedIntoHistory ==
    \A t \in Workers :
        (IsDone(t, "accept") /\ Latest(t) /\ th[t].result = "ok")
        => LET g == th[t].action
               h == games[HistoryKey(g)]
               w == Named(t)[1]
           IN  /\ ActiveWith(games, g, th[t].wid) = {}
               /\ Len(h) >= 1
               /\ h[1].id = th[t].wid /\ h[1].status = "completed"
               /\ h[1].creator = w.creator /\ h[1].opponent = th[t].user
               /\ h[1].amount = w.amount
               /\ h[1].creatorRoll \in Draws(g) /\ h[1].opponentRoll \in Draws(g)
               /\ h[1].winner \in {h[1].creator, h[1].opponent, "tie"}
               /\ h[1].creatorPayout + h[1].opponentPayout \in {w.amount, 2 * w.amount}
               /\ h[1].creatorBalanceAfter = get_user_balance(balances, h[1].creator)
               /\ h[1].opponentBalanceAfter = get_user_balance(balances, h[1].opponent)
               /\ h[1].opponentBalanceAfter
                    = as_money(get_user_balance(th[t].preBal, h[1].opponent))
                        - w.amount + h[1].opponentPayout
               /\ h[1].creatorBalanceAfter
                    = as_money(get_user_balance(th[t].preBal, h[1].creator))
                        - (IF w.creatorDebited THEN 0 ELSE w.amount) + h[1].creatorPayout

\* A wager created by a request was accepted and won by the opponent, and is
\* the newest entry of the history of its game.
C19_Witness ==
    \E t \in Workers :
        /\ IsDone(t, "accept") /\ Latest(t) /\ th[t].result = "ok"
        /\ LET h == games[HistoryKey(th[t].action)]
           IN  /\ Len(h) >= 1
               /\ h[1].id = th[t].wid /\ h[1].id # LegacyId
               /\ h[1].winner = th[t].user
               /\ h[1].opponentPayout = 2 * h[1].amount

\* ------------------------------------------------------- wagers: the history
\* An entry of an earlier resolution of game g, the k-th most recent one.
OldEntry(g, k) ==
    [NewWager(LegacyId + k, "alice", 5 * Dollar) EXCEPT
        !.opponent = "bob", !.status = "completed",
        !.creatorRoll = IF g = "dice" THEN DiceHigh ELSE BustLimit,
        !.opponentRoll = IF g = "dice" THEN DiceLow ELSE ScoreLow,
        !.winner = "alice", !.creatorPayout = 10 * Dollar,
        !.creatorBalanceAfter = 10 * Dollar]

\* games.json after n resolutions of game g, with a wager of alice waiting
\* since before creatorDebited was recorded.
GamesAfter(g, n) ==
    [LegacyGames(g, "alice") EXCEPT ![HistoryKey(g)] = [k \in 1..n |-> OldEntry(g, k)]]

InitHistory ==
    /\ balances = StakeFunded
    /\ stock = StockOf(0)
    /\ games \in {GamesAfter(g, n) : g \in GameTypes, n \in {HistoryCap - 1, HistoryCap}}
    /\ lock = NoLock
    /\ th = [t \in Threads |-> Idle]
    /\ nreq = 0
    /\ nextId = 1
    /\ logs = <<>>
    /\ locked = FALSE
    /\ ghost = GhostInit

\* Creates, and accepts of the wagers listed as open, of both games, one
\* after the other.
NextHistory ==
    \/ Quiet /\ \E g \in GameTypes, u \in LedgerUsers, m \in Stakes : Create("w1", g, u, m)
    \/ Quiet /\ \E g \in GameTypes, u \in LedgerUsers : \E i \in IdsOf(games[ActiveKey(g)]) :
                   \E cr \in DrawSample(g), orl \in DrawSample(g) : Accept("w1", g, i, u, cr, orl)
    \/ WagerSaveBalances("w1")
    \/ WagerSaveGames("w1")

SpecHistory == InitHistory /\ [][NextHistory]_vars

\* The history of game g after the latest request is the one before it with
\* the new entries in front, cut after HistoryCap entries.
NewestFirst(t, g) ==
    LET h == games[HistoryKey(g)]
        pre == th[t].preGames[HistoryKey(g)]
    IN  IF th[t].op = "accept" /\ th[t].result = "ok" /\ th[t].action = g
          THEN /\ h[1].id = th[t].wid /\ h[1].id \notin IdsOf(pre)
               /\ Len(h) = IF Len(pre) + 1 > HistoryCap THEN HistoryCap ELSE Len(pre) + 1
               /\ \A i \in 2..Len(h) : h[i] = pre[i - 1]
          ELSE h = pre

\* C20: a history never holds more than 100 entries and is ordered most
\* recent first: a resolution puts its entry in front of the earlier ones, in
\* their order, and when that makes 101 the last, oldest, entry is dropped.
C20_HistoryCappedNewestFirst ==
    /\ \A g \in GameTypes : Len(games[HistoryKey(g)]) <= HistoryCap
    /\ \A t \in Workers : \A g \in GameTypes :
          (Latest(t) /\ th[t].op # "none") => NewestFirst(t, g)

\* A resolution met a history of 100 entries: its entry is first and the
\* oldest of the 100 is gone.
C20_Witness ==
    \E t \in Workers :
        /\ IsDone(t, "accept") /\ Latest(t) /\ th[t].result = "ok"
        /\ LET h == games[HistoryKey(th[t].action)]
               pre == th[t].preGames[HistoryKey(th[t].action)]
           IN  /\ Len(pre) = HistoryCap /\ Len(h) = HistoryCap
               /\ h[1].id = th[t].wid
               /\ pre[HistoryCap].id \notin IdsOf(h)
               /\ h[HistoryCap] = pre[HistoryCap - 1]

\* ------------------------------------------------- wagers: winner and payout
\* The history entry that accept/join request t has just written.
Resolved(t, g) ==
    /\ IsDone(t, "accept") /\ Latest(t) /\ th[t].result = "ok"
    /\ th[t].action = g

\* The recorded winner and the payouts of entry e are those of the outcome
\* that the rules of game g give its two draws.
WinnerAndPayoutMatch(g, e) ==
    LET o == Outcome(g, e)
    IN  /\ o = "creator" => /\ e.winner = e.creator
                            /\ e.creatorPayout = 2 * e.amount /\ e.opponentPayout = 0
        /\ o = "opponent" => /\ e.winner = e.opponent
                             /\ e.opponentPayout = 2 * e.amount /\ e.creatorPayout = 0
        /\ o = "tie" => /\ e.winner = "tie"
                        /\ 2 * e.creatorPayout = e.amount /\ 2 * e.opponentPayout = e.amount

\* C21: dice, for every pair of rolls in 1..6: the higher roll wins, equal
\* rolls tie, and the payout branch taken is the one of that winner.
C21_DiceWinnerAndPayout ==
    \A t \in Workers :
        Resolved(t, "dice") =>
            /\ games.dice_history[1].creatorRoll \in DiceLow..DiceHigh
            /\ games.dice_history[1].opponentRoll \in DiceLow..DiceHigh
            /\ WinnerAndPayoutMatch("dice", games.dice_history[1])

\* C22: blackjack, for every pair of scores in 12..22: a score above 21 is a
\* bust, both bust tie, one bust makes the other side win, otherwise the
\* higher score wins and equal scores tie; the payout branch is that winner's.
C22_BlackjackWinnerAndPayout ==
    \A t \in Workers :
        Resolved(t, "blackjack") =>
            /\ games.blackjack_history[1].creatorRoll \in ScoreLow..ScoreHigh
            /\ games.blackjack_history[1].opponentRoll \in ScoreLow..ScoreHigh
            /\ WinnerAndPayoutMatch("blackjack", games.blackjack_history[1])

\* ------------------------------------------- checkout: what a success changes
\* Item lists in which a well-formed item stands next to one with price 0.
MixedLists ==
    CheckoutLists
      \cup {<<Item(1), [productId |-> 2, price |-> 0]>>,
            <<[productId |-> 2, price |-> 0], Item(1)>>}

\* Checkouts one after the other, over the item lists of MixedLists.
NextCheckoutMixed ==
    \/ Quiet /\ \E u \in Buyers, items \in MixedLists : Checkout("w1", u, items)
    \/ CheckoutSteps

SpecCheckoutMixed == InitCheckout /\ [][NextCheckoutMixed]_vars

\* The product ids named by the items of a request, whatever their price.
NamedIds(items) == {items[i].productId : i \in 1..Len(items)} \ {NoProduct}

\* C23: a successful checkout debits exactly the sum of the requested prices
\* and removes exactly the requested product ids, the other stock items
\* staying in their order.
C23_CheckoutDebitsAndRemoves ==
    \A t \in Workers :
        (IsCheckout(t) /\ Latest(t) /\ th[t].result = "ok")
        => /\ get_user_balance(balances, th[t].user)
                = get_user_balance(th[t].preBal, th[t].user) - SumPrices(th[t].items)
           /\ NamedIds(th[t].items) \subseteq StockIds(th[t].preStock)
           /\ stock = SelectSeq(th[t].preStock, LAMBDA p : p.id \notin NamedIds(th[t].items))
           /\ th[t].wrote = {"stock", "balances", "logs"}

\* C24: a checkout whose item list is empty, or holds an item with a price
\* that is not positive, is rejected and changes nothing.
C24_RejectsEmptyOrUnpriced ==
    \A t \in Workers :
        ( /\ IsCheckout(t) /\ Latest(t) /\ th[t].user # NoUser
          /\ \/ th[t].items = <<>>
             \/ \E i \in 1..Len(th[t].items) : th[t].items[i].price <= 0 )
        => /\ th[t].result # "ok"
           /\ th[t].wrote = {}
           /\ stock = th[t].preStock /\ balances = th[t].preBal

\* ------------------------------------------------------ the stock commands
\* normalized_slots: the requested slots in request order, each once
RECURSIVE Normalized(_)
Normalized(slots) ==
    IF slots = <<>> THEN <<>>
    ELSE LET r == Normalized(SubSeq(slots, 1, Len(slots) - 1))
             last == slots[Len(slots)]
         IN  IF last \in Range(r) THEN r ELSE Append(r, last)

\* remove_shop_products_by_slots taking the slots one after the other, each
\* against the list the earlier removals left
RECURSIVE remove_shop_products_by_slots_Shifting(_, _)
remove_shop_products_by_slots_Shifting(products, slot_numbers) ==
    LET normalized_slots == Normalized(slot_numbers)
    IN  IF normalized_slots = <<>>
          THEN [removed |-> <<>>, remaining |-> products, invalid |-> <<>>]
          ELSE LET slot == normalized_slots[1]
                   hit == 1 <= slot /\ slot <= Len(products)
                   r == remove_shop_products_by_slots_Shifting(
                            IF hit THEN Pop(products, slot) ELSE products, Tail(normalized_slots))
               IN  [removed |-> IF hit THEN <<[slot |-> slot, product |-> products[slot]]>> \o r.removed
                                ELSE r.removed,
                    remaining |-> r.remaining,
                    invalid |-> IF hit THEN r.invalid ELSE <<slot>> \o r.invalid]

\* remove_shop_products_by_slots on the loaded list: the removed entries with
\* their slot, the list to write back, and the slots outside 1..len.
remove_shop_products_by_slots(products, slot_numbers) ==
    LET normalized_slots == Normalized(slot_numbers)
        total_products == Len(products)
        inside(slot) == 1 <= slot /\ slot <= total_products
        slot_set == {slot \in Range(normalized_slots) : inside(slot)}
        positions == [i \in 1..total_products |-> i]
        taken == SelectSeq(positions, LAMBDA i : i \in slot_set)
        kept == SelectSeq(positions, LAMBDA i : i \notin slot_set)
    IN  [removed |-> [k \in 1..Len(taken) |-> [slot |-> taken[k], product |-> products[taken[k]]]],
         remaining |-> [k \in 1..Len(kept) |-> products[kept[k]]],
         invalid |-> SelectSeq(normalized_slots, LAMBDA slot : ~inside(slot))]

RECURSIVE MaxOf(_)
MaxOf(S) == IF S = {} THEN 0 ELSE LET x == CHOOSE x \in S : TRUE IN Max(x, MaxOf(S \ {x}))

\* add_stock numbering by the length of the list
NextStockId_ByCount(products) == Len(products) + 1

\* next_id = max([p.get('id', 0) for p in shop_products], default=0) + 1
NextStockId(products) == MaxOf({products[i].id : i \in 1..Len(products)}) + 1

KeysOf(products) == {products[i].key : i \in 1..Len(products)}

NoKey == 0                   \* /stock without a key: one is generated
MaxPrice == 10000            \* price > 10000 is rejected

\* /stock [price] [BIN] [key] (add_stock): the list is loaded, the id and the
\* key are chosen, and the entry is appended to the loaded list. generated is
\* the first key of generate_key() that no product carries.
AddStock(price, provided_key, generated) ==
    /\ CanStart(BotThread)
    /\ Len(stock) <= MaxStock
    /\ nreq' = nreq + 1
    /\ LET req == [Fresh("addstock", NoUser) EXCEPT !.amount = price, !.value = provided_key]
           existing_keys == KeysOf(stock)
           next_id == NextStockId(stock)
       IN  IF price <= 0 \/ price > MaxPrice * Dollar
             THEN th' = [th EXCEPT ![BotThread] = Finish(req, "InvalidPrice")]
           ELSE IF provided_key # NoKey /\ provided_key \in existing_keys
             THEN th' = [th EXCEPT ![BotThread] = Finish(req, "KeyExists")]
           ELSE LET key == IF provided_key # NoKey THEN provided_key ELSE generated
                IN
                  /\ key \notin existing_keys
                  /\ th' = [th EXCEPT ![BotThread] =
                              [req EXCEPT !.pc = "st_save", !.wid = next_id, !.value = key,
                                          !.logname = "ADD_STOCK",
                                          !.stk = Append(stock, [id |-> next_id, key |-> key,
                                                                 price |-> price])]]
    /\ UNCHANGED <<balances, stock, games, lock, nextId, logs, ghost, locked>>

\* /removestockslot (remove_stock_slot): nothing is written or logged when no
\* slot was valid.
RemoveStockSlot(slot_numbers) ==
    /\ CanStart(BotThread)
    /\ nreq' = nreq + 1
    /\ LET req == [Fresh("removestockslot", NoUser) EXCEPT !.ids = slot_numbers, !.action = "slots"]
           r == remove_shop_products_by_slots(stock, slot_numbers)
           got == [req EXCEPT !.removed = r.removed, !.missing = r.invalid, !.stk = r.remaining]
       IN  IF r.removed = <<>>
             THEN th' = [th EXCEPT ![BotThread] = Finish(got, "NoStockRemoved")]
             ELSE th' = [th EXCEPT ![BotThread] =
                           [got EXCEPT !.pc = "st_save", !.logname = "REMOVE_STOCK_SLOT"]]
    /\ UNCHANGED <<balances, stock, games, lock, nextId, logs, ghost, locked>>

\* stock_clear_confirm of handle_stock_callback: clear_shop_products
ClearStock ==
    /\ CanStart(BotThread)
    /\ nreq' = nreq + 1
    /\ th' = [th EXCEPT ![BotThread] =
                [Fresh("clearstock", NoUser) EXCEPT !.pc = "st_save", !.value = Len(stock),
                                                    !.stk = <<>>, !.logname = "CLEAR_STOCK"]]
    /\ UNCHANGED <<balances, stock, games, lock, nextId, logs, ghost, locked>>

\* /api/purchase/notify (notify_purchase): removes by product_ids when given,
\* else by stock_slots; the answer is a success either way.
Notify(t, u, product_ids, stock_slots) ==
    /\ t \in Workers
    /\ CanStart(t)
    /\ nreq' = nreq + 1
    /\ LET req == Fresh("notify", u)
       IN  IF u = NoUser
             THEN th' = [th EXCEPT ![t] = Finish(req, "UsernameRequired")]
           ELSE IF product_ids # <<>>
             THEN LET r == remove_shop_products_by_ids(stock, product_ids)
                      got == [req EXCEPT !.action = "ids", !.ids = product_ids, !.stk = r.remaining,
                                         !.removed = r.removed, !.missing = r.missing]
                  IN  IF r.removed = <<>>
                        THEN th' = [th EXCEPT ![t] = Finish(got, "ok")]
                        ELSE th' = [th EXCEPT ![t] = [got EXCEPT !.pc = "st_save"]]
           ELSE IF stock_slots # <<>>
             THEN LET r == remove_shop_products_by_slots(stock, stock_slots)
                      got == [req EXCEPT !.action = "slots", !.ids = stock_slots, !.stk = r.remaining,
                                         !.removed = r.removed, !.missing = r.invalid]
                  IN  IF r.removed = <<>>
                        THEN th' = [th EXCEPT ![t] = Finish(got, "ok")]
                        ELSE th' = [th EXCEPT ![t] = [got EXCEPT !.pc = "st_save"]]
           ELSE th' = [th EXCEPT ![t] = Finish(req, "ok")]
    /\ UNCHANGED <<balances, stock, games, lock, nextId, logs, ghost, locked>>

\* save_shop_products of the four handlers above; the bot's commands go on
\* to log_action, notify_purchase returns.
StockSave(t) ==
    /\ th[t].pc = "st_save"
    /\ stock' = th[t].stk
    /\ th' = [th EXCEPT ![t] =
                IF @.logname = "" THEN Finish([@ EXCEPT !.wrote = @ \cup {"stock"}], "ok")
                ELSE ThenLog([@ EXCEPT !.wrote = @ \cup {"stock"}], @.logname, "ok")]
    /\ ghost' = IF th[t].op = "addstock"
                  THEN [ghost EXCEPT !.assigned = Append(@, th[t].wid)]
                  ELSE ghost
    /\ UNCHANGED <<balances, games, lock, nreq, nextId, logs, locked>>

\* ------------------------------------------------ stock: inputs and scenarios
Slots == 0..(MaxStock + 2)

\* One slot, or two (the same one twice included).
SlotLists == {<<a>> : a \in Slots} \cup {<<a, b>> : a, b \in Slots}

IdLists == {<<a>> : a \in RequestIds} \cup {<<a, b>> : a, b \in RequestIds}

InitStock ==
    /\ balances = Funded
    /\ stock \in {StockOf(n) : n \in 0..(MaxStock + 1)}
    /\ games = EmptyGames
    /\ lock = NoLock
    /\ th = [t \in Threads |-> Idle]
    /\ nreq = 0
    /\ nextId = 1
    /\ logs = <<>>
    /\ locked = FALSE
    /\ ghost = [GhostInit EXCEPT !.assigned = [i \in 1..Len(stock) |-> stock[i].id]]

\* Removals of notify_purchase, by id and by slot, one after the other.
NextNotify ==
    \/ Quiet /\ \E u \in {"alice", NoUser}, ids \in IdLists \cup {<<>>} : Notify("w1", u, ids, <<>>)
    \/ Quiet /\ \E slots \in SlotLists : Notify("w1", "alice", <<>>, slots)
    \/ StockSave("w1")

SpecNotify == InitStock /\ [][NextNotify]_vars

\* /removestockslot commands, one after the other.
NextRemoveSlots ==
    \/ Quiet /\ \E slots \in SlotLists : RemoveStockSlot(slots)
    \/ StockSave(BotThread)
    \/ LogLoad(BotThread) \/ LogSave(BotThread)

SpecRemoveSlots == InitStock /\ [][NextRemoveSlots]_vars

\* What /stock is given: a price and no key, a price and the key of the
\* first product, no valid price.
GeneratedKeys == {MaxStock + 2, MaxStock + 3}

AddInputs == {<<5 * Dollar, NoKey>>, <<5 * Dollar, 1>>, <<0, NoKey>>}

\* The stock commands of the bot's thread and the checkouts of a request
\* thread, interleaved at each file access.
NextStock ==
    \/ \E in \in AddInputs, key \in GeneratedKeys : AddStock(in[1], in[2], key)
    \/ \E a \in {1, MaxStock} : RemoveStockSlot(<<a>>)
    \/ ClearStock
    \/ \E a \in {1, MaxStock} : Checkout("w1", "alice", <<Item(a)>>)
    \/ CheckoutLoadStock("w1") \/ CheckoutSaveStock("w1") \/ CheckoutCharge("w1")
    \/ StockSave(BotThread)
    \/ \E t \in {"w1", BotThread} : LogLoad(t) \/ LogSave(t)

SpecStock == InitStock /\ [][NextStock]_vars

\* The last request was a removal by id (by slot) of notify_purchase on t.
NotifiedBy(t, how) == IsDone(t, "notify") /\ Latest(t) /\ th[t].action = how

\* C25: a removal by id takes out of the stock every item whose id was
\* requested and no other, leaves the rest in their order, returns the removed
\* items and the requested ids that no item carried, and succeeds also when
\* ids are missing.
C25_RemoveByIds ==
    \A t \in Workers :
        NotifiedBy(t, "ids")
        => LET pre == th[t].preStock
               asked == Range(th[t].ids)
           IN  /\ th[t].result = "ok"
               /\ stock = SelectSeq(pre, LAMBDA p : p.id \notin asked)
               /\ th[t].removed = SelectSeq(pre, LAMBDA p : p.id \in asked)
               /\ th[t].missing = SelectSeq(th[t].ids, LAMBDA i : i \notin StockIds(pre))

\* Some requested ids were removed, another was missing, an item stayed.
C25_Witness ==
    \E t \in Workers :
        /\ NotifiedBy(t, "ids")
        /\ th[t].removed # <<>> /\ th[t].missing # <<>> /\ stock # <<>>
        /\ th[t].result = "ok"

\* The last command was a /removestockslot.
SlotsRemoved == IsDone(BotThread, "removestockslot") /\ Latest(BotThread)

\* C26: a removal by slot resolves every requested slot against the list as
\* it was when the call began: the entries returned are the items of those
\* positions, each with its position, in the order of the list; the slots
\* outside the list are returned as invalid; the other items stay in their
\* order. A later call therefore counts on the shortened list.
C26_RemoveBySlots ==
    SlotsRemoved
    => LET pre == th[BotThread].preStock
           asked == Range(th[BotThread].ids)
           valid == {n \in asked : 1 <= n /\ n <= Len(pre)}
           removed == th[BotThread].removed
       IN  /\ Len(removed) = Cardinality(valid)
           /\ \A k \in 1..Len(removed) :
                  /\ removed[k].slot \in valid
                  /\ removed[k].product = pre[removed[k].slot]
                  /\ \A j \in 1..(k - 1) : removed[j].slot < removed[k].slot
           /\ Range(th[BotThread].missing) = asked \ valid
           /\ stock = SelectSeq(pre, LAMBDA p : p.id \notin {pre[n].id : n \in valid})
           /\ th[BotThread].result = IF valid = {} THEN "NoStockRemoved" ELSE "ok"

\* After an earlier removal, slot 2 is the item with id 3.
C26_Witness ==
    /\ SlotsRemoved
    /\ nreq >= 2
    /\ th[BotThread].ids = <<2>>
    /\ Len(th[BotThread].removed) = 1
    /\ th[BotThread].removed[1].slot = 2
    /\ th[BotThread].removed[1].product.id = 3

Distinct(s, field(_)) == \A i, j \in 1..Len(s) : i # j => field(s[i]) # field(s[j])

IdOf(p) == p.id

KeyOf(p) == p.key

\* The last command was a /stock.
Added == IsDone(BotThread, "addstock") /\ Latest(BotThread)

\* C27: the ids of the stock are pairwise distinct, and so are the keys. An
\* accepted /stock wrote the list it loaded with one item more at its end,
\* whose id is the largest loaded id plus one (1 for an empty list); a /stock
\* with a key of the loaded list wrote nothing.
C27_UniqueIdsAndKeys ==
    /\ Distinct(stock, IdOf)
    /\ Distinct(stock, KeyOf)
    /\ Added /\ th[BotThread].result = "ok"
       => LET pre == th[BotThread].preStock
              new == th[BotThread].stk[Len(th[BotThread].stk)]
          IN  /\ th[BotThread].stk = Append(pre, new)
              /\ \A i \in 1..Len(pre) : new.id > pre[i].id
              /\ new.id = 1 \/ \E i \in 1..Len(pre) : new.id = pre[i].id + 1
              /\ new.key \notin KeysOf(pre)
    /\ Added /\ th[BotThread].result = "KeyExists"
       => /\ th[BotThread].value \in KeysOf(th[BotThread].preStock)
          /\ th[BotThread].wrote = {}

\* A /stock was accepted after a removal: the new item is the last of two or
\* more, and its id is not the length of the list.
C27_Witness ==
    /\ Added /\ th[BotThread].result = "ok"
    /\ stock = th[BotThread].stk
    /\ Len(stock) >= 2
    /\ stock[Len(stock)].id # Len(stock)

\* C28: the ids given to stock items grow: each new item has an id above all
\* the ids given before it, those of the items since sold or removed included.
C28_IdsNeverReused ==
    \A i, j \in 1..Len(ghost.assigned) : i < j => ghost.assigned[i] < ghost.assigned[j]

\* ---------------------------------------------------------- the audit log
\* A log of n entries written before the first request.
OldLog(n) == [k \in 1..n |-> [action |-> "OLD", seq |-> k - n]]

InitLog ==
    /\ balances = EmptyDoc
    /\ stock = StockOf(0)
    /\ games = EmptyGames
    /\ lock = NoLock
    /\ th = [t \in Threads |-> Idle]
    /\ nreq = 0
    /\ nextId = 1
    /\ logs \in {OldLog(n) : n \in {0, LogCap - 1, LogCap}}
    /\ locked = FALSE
    /\ ghost = GhostInit

\* Registrations on a request thread and /setbalance on the bot's thread,
\* interleaved at each file access.
NextLog ==
    \/ \E u \in LedgerUsers : Register("w1", u)
    \/ AdminBalance("setbalance", "alice", 4 * Dollar)
    \/ RegisterSave("w1")
    \/ AdminSave
    \/ LogSteps

SpecLog == InitLog /\ [][NextLog]_vars

\* C29: the log never holds more than 1000 entries, and it changes only by
\* one new entry at its end, the earlier entries staying in their order and
\* the oldest leaving when the log was full.
C29_LogAppendOnlyCapped ==
    /\ [](Len(logs) <= LogCap)
    /\ [][logs' # logs
            => LET n == Len(logs)
                   kept == IF n < LogCap THEN n ELSE LogCap - 1
               IN  /\ Len(logs') = kept + 1
                   /\ \A k \in 1..kept : logs'[k] = logs[n - kept + k]
                   /\ logs'[kept + 1] \notin Range(logs)]_vars

\* The last request on t was a ledger call that wrote a balance.
LedgerCalls ==
    {"update", "setbalance", "addbalance", "removebalance", "checkout", "create", "cancel", "accept"}

ChangedLedger(t) ==
    /\ th[t].pc = "done" /\ Latest(t)
    /\ th[t].op \in LedgerCalls
    /\ "balances" \in th[t].wrote

\* C30: a ledger call that wrote a balance left one entry more in the log.
C30_LedgerCallsLogged ==
    \A t \in Threads :
        ChangedLedger(t)
        => /\ Len(logs) = Len(th[t].preLogs) + 1
           /\ SubSeq(logs, 1, Len(th[t].preLogs)) = th[t].preLogs

\* C31: /setbalance stores the given value as the balance whatever the old
\* one was, except that a negative value is refused and the stored balances
\* stay as they were.
C31_SetBalanceOverwrites ==
    (IsDone(BotThread, "setbalance") /\ Latest(BotThread))
    => LET u == th[BotThread].user
           amount == th[BotThread].amount
       IN  IF amount < 0
             THEN th[BotThread].result # "ok" /\ balances = th[BotThread].preBal
             ELSE /\ th[BotThread].result = "ok"
                  /\ u \in DOMAIN balances /\ balances[u].balance = amount

\* ------------------------------------------ the lockdown (admin_balance_bot.py)
Owner == "owner"                       \* OWNER_ID
AdminIds == {Owner, "admin"}           \* ADMIN_IDS
Website == "website"                   \* the holder of the webhook secret
Callers == AdminIds \cup {"guest"}

\* check_lockdown: the wrapped handler runs unless the system is locked and
\* the caller is not the owner
check_lockdown(is_locked, caller) == ~(is_locked /\ caller # Owner)

\* set_balance, add_balance, remove_balance of admin_balance_bot.py on the
\* loaded document.
BotDecision(doc, cmd, u, amount) ==
    IF cmd = "setbalance"
      THEN [result |-> "ok", doc |-> SetBalance(WithUser(doc, u), u, amount)]
    ELSE IF amount <= 0
      THEN [result |-> "InvalidAmount", doc |-> doc]
    ELSE IF cmd = "addbalance"
      THEN LET d == WithUser(doc, u)
           IN  [result |-> "ok",
                doc |-> Put(d, u, BalanceRecord(d[u].balance + amount,
                                                d[u].totalRecharge + amount))]
    ELSE IF u \notin DOMAIN doc
      THEN [result |-> "UserNotFound", doc |-> doc]
      ELSE [result |-> "ok", doc |-> SetBalance(doc, u, Max(0, doc[u].balance - amount))]

\* @admin_only @check_lockdown on the three balance commands
BotCommand(caller, cmd, u, amount) ==
    /\ CanStart(BotThread)
    /\ nreq' = nreq + 1
    /\ LET req == [Fresh(cmd, u) EXCEPT !.amount = amount, !.caller = caller,
                                         !.oldBalance = get_user_balance(balances, u)]
           dec == BotDecision(balances, cmd, u, amount)
       IN  IF caller \notin AdminIds
             THEN th' = [th EXCEPT ![BotThread] = Finish(req, "ignored")]
           ELSE IF ~check_lockdown(locked, caller)
             THEN th' = [th EXCEPT ![BotThread] = Finish(req, "SystemLocked")]
           ELSE IF dec.result = "ok"
             THEN th' = [th EXCEPT ![BotThread] = [req EXCEPT !.pc = "adm_save", !.bal = dec.doc]]
             ELSE th' = [th EXCEPT ![BotThread] = Finish(req, dec.result)]
    /\ UNCHANGED <<balances, stock, games, lock, nextId, logs, locked, ghost>>

\* /lockdown: @owner_only, SYSTEM_LOCKED = not SYSTEM_LOCKED, then log_action
Lockdown(caller) ==
    /\ CanStart(BotThread)
    /\ nreq' = nreq + 1
    /\ LET req == [Fresh("lockdown", NoUser) EXCEPT !.caller = caller]
       IN  IF caller # Owner
             THEN /\ th' = [th EXCEPT ![BotThread] = Finish(req, "ignored")]
                  /\ locked' = locked
             ELSE /\ th' = [th EXCEPT ![BotThread] = ThenLog(req, "LOCKDOWN", "ok")]
                  /\ locked' = ~locked
    /\ UNCHANGED <<balances, stock, games, lock, nextId, logs, ghost>>

\* /api/balance/update of admin_balance_bot.py: the secret, the parameters,
\* the decision on the loaded document
WebUpdateBalance(t, u, action, amount) ==
    /\ t \in Workers
    /\ CanStart(t)
    /\ nreq' = nreq + 1
    /\ LET req == [Fresh("update", u) EXCEPT !.action = action, !.amount = amount,
                                              !.caller = Website]
           dec == UpdateDecision(balances, u, action, amount)
       IN  IF u = NoUser \/ action = "" \/ amount <= 0
             THEN th' = [th EXCEPT ![t] = Finish(req, "InvalidParameters")]
           ELSE IF dec.result = "ok"
             THEN th' = [th EXCEPT ![t] = [req EXCEPT !.pc = "web_save", !.bal = dec.doc]]
             ELSE th' = [th EXCEPT ![t] = Finish(req, dec.result)]
    /\ UNCHANGED <<balances, stock, games, lock, nextId, logs, locked, ghost>>

\* save_balances(balances), then log_action(0, "WEBSITE", "BALANCE_...")
WebUpdateSave(t) ==
    /\ th[t].pc = "web_save"
    /\ balances' = th[t].bal
    /\ th' = [th EXCEPT ![t] = ThenLog([@ EXCEPT !.wrote = @ \cup {"balances"}],
                        IF @.action = "add" THEN "BALANCE_ADD" ELSE "BALANCE_SUBTRACT", "ok")]
    /\ UNCHANGED <<stock, games, lock, nreq, nextId, logs, locked, ghost>>

\* The bot's commands of the owner, an admin and a stranger, the owner's
\* /lockdown and the website's balance updates, one after the other.
NextLockdown ==
    \/ Quiet /\ \E caller \in Callers : Lockdown(caller)
    \/ Quiet /\ \E caller \in Callers, cmd \in {"setbalance", "addbalance", "removebalance"} :
                   BotCommand(caller, cmd, "alice", 4 * Dollar)
    \/ Quiet /\ \E a \in {"add", "subtract"} : WebUpdateBalance("w1", "alice", a, 3 * Dollar)
    \/ AdminSave
    \/ WebUpdateSave("w1")
    \/ LogSteps

SpecLockdown == InitWith(Funded, {StockOf(0)}) /\ [][NextLockdown]_vars

\* The balance calls of the bot and of the website.
BalanceCalls == {"update", "setbalance", "addbalance", "removebalance"}

\* C32: a balance call that arrives during the lockdown from anyone but the
\* owner is refused and leaves balances and stock as they were; the flag
\* changes only by the owner's /lockdown; without the lockdown an admin's
\* command is carried out.
C32_LockdownRejectsNonOwner ==
    \A t \in Threads :
        (th[t].pc = "done" /\ Latest(t) /\ th[t].op # "none")
        => /\ (th[t].op \in BalanceCalls /\ th[t].preLocked /\ th[t].caller # Owner)
              => /\ th[t].result # "ok"
                 /\ balances = th[t].preBal /\ stock = th[t].preStock
           /\ locked # th[t].preLocked
              => th[t].op = "lockdown" /\ th[t].caller = Owner
           /\ (th[t].op \in BalanceCalls /\ ~th[t].preLocked /\ th[t].caller = "admin")
              => th[t].result = "ok"

\* C33: registering a name that has a record answers isNew = false, writes
\* nothing and leaves every record as it was; registering a name without a
\* record adds one with balance 0 and totalRecharge 0 and changes no other.
C33_RegisterCreatesIfAbsent ==
    \A t \in Workers :
        (IsDone(t, "register") /\ Latest(t) /\ th[t].user # NoUser)
        => LET u == th[t].user
               pre == th[t].preBal
           IN  IF u \in DOMAIN pre
                 THEN /\ th[t].result = "exists"
                      /\ th[t].wrote = {}
                      /\ balances = pre
                 ELSE /\ th[t].result = "new"
                      /\ balances = Put(pre, u, BalanceRecord(0, 0))

\* A second registration of a user whose balance has been credited since.
C33_Witness ==
    \E t \in Workers :
        /\ IsDone(t, "register") /\ Latest(t)
        /\ th[t].result = "exists"
        /\ th[t].user \in DOMAIN balances
        /\ balances[th[t].user].balance > 0

\* ------------------------------------------------------ rejected requests
\* The routes that check X-Webhook-Secret before anything else.
SecretRoutes == {"register", "update", "checkout", "notify", "create", "cancel", "accept"}

\* A request with a wrong secret: 401 before the body is read.
Unauthorized(t, op, u) ==
    /\ t \in Workers
    /\ CanStart(t)
    /\ nreq' = nreq + 1
    /\ th' = [th EXCEPT ![t] = Finish(Fresh(op, u), "Unauthorized")]
    /\ UNCHANGED <<balances, stock, games, lock, nextId, logs, locked, ghost>>

\* Stakes below, inside and above the accepted range.
AnyStakes == {Cent, 5 * Dollar, (MaxStake + 1) * Dollar}

\* Well-formed and malformed requests to every route, one after the other.
NextValidation ==
    \/ Quiet /\ \E op \in SecretRoutes : Unauthorized("w1", op, "alice")
    \/ Quiet /\ \E u \in {"carol", NoUser} : Register("w1", u)
    \/ Quiet /\ \E u \in {"alice", NoUser}, a \in {"add", "refund", ""}, m \in {0, 3 * Dollar} :
                   UpdateBalance("w1", u, a, m)
    \/ Quiet /\ \E u \in {"alice", NoUser}, items \in {<<>>, <<Item(1)>>, <<[productId |-> 1, price |-> 0]>>} :
                   Checkout("w1", u, items)
    \/ Quiet /\ \E g \in GameTypes, u \in {"alice", NoUser}, m \in AnyStakes : Create("w1", g, u, m)
    \/ Quiet /\ \E g \in GameTypes, i \in {0, 1}, u \in {"alice", NoUser} : Cancel("w1", g, i, u)
    \/ Quiet /\ \E g \in GameTypes, i \in {0, 1}, u \in {"bob", NoUser} :
                   Accept("w1", g, i, u, DiceLow, DiceHigh)
    \/ RegisterSave("w1")
    \/ UpdateSave("w1")
    \/ CheckoutSteps
    \/ WagerSaveBalances("w1")
    \/ WagerSaveGames("w1")

SpecValidation == InitCheckout /\ [][NextValidation]_vars

ValidationAnswers ==
    {"Unauthorized", "UsernameRequired", "InvalidParameters", "InvalidAction", "InvalidCheckoutItems"}

\* The request of t lacked a name, an id, a positive amount, a known action
\* or a stake within the range.
Malformed(t) ==
    \/ th[t].user = NoUser
    \/ th[t].op = "update" /\ (th[t].amount <= 0 \/ th[t].action \notin {"add", "subtract"})
    \/ th[t].op = "create" /\ (th[t].amount < MinStake * Dollar \/ th[t].amount > MaxStake * Dollar)
    \/ th[t].op \in {"cancel", "accept"} /\ th[t].wid = 0
    \/ th[t].op = "checkout" /\ th[t].items = <<>>

\* C34: a malformed request is answered with a validation error, and a
\* request answered with a validation error or with Unauthorized has written
\* nothing: balances, stock, open wagers and histories are as it found them.
C34_RejectedChangesNothing ==
    \A t \in Workers :
        (th[t].pc = "done" /\ Latest(t) /\ th[t].op # "none")
        => /\ Malformed(t) => th[t].result \in ValidationAnswers
           /\ th[t].result \in ValidationAnswers
              => /\ th[t].wrote = {}
                 /\ balances = th[t].preBal
                 /\ stock = th[t].preStock
                 /\ games = th[t].preGames

\* A stake outside the range was refused while a wager was open and the
\* balances had moved.
C34_Witness ==
    \E t \in Workers :
        /\ IsDone(t, "create") /\ Latest(t)
        /\ th[t].result = "InvalidParameters"
        /\ th[t].user # NoUser
        /\ \E g \in GameTypes : games[ActiveKey(g)] # <<>>

\* ------------------------------------------------------- a failing write
\* save_json when the disk fails: open(filepath, 'w') raises and the file
\* stays, or the dump raises after the file was truncated and the next
\* load_json falls back to its default; the exception is caught and logged,
\* False is returned, and update_user_balance goes on to its answer.
UpdateSaveFails(t) ==
    /\ th[t].pc = "upd_save"
    /\ balances' \in {balances, EmptyDoc}
    /\ th' = [th EXCEPT ![t] = Finish([@ EXCEPT !.lost = TRUE], "ok")]
    /\ UNCHANGED <<stock, games, lock, nreq, nextId, logs, locked, ghost>>

\* HTTP adjust calls, one after the other, on a disk whose writes may fail.
NextDisk ==
    \/ Quiet /\ \E u \in LedgerUsers, a \in {"add", "subtract"}, m \in {3 * Dollar, 5 * Dollar} :
                   UpdateBalance("w1", u, a, m)
    \/ UpdateSave("w1")
    \/ UpdateSaveFails("w1")

SpecDisk == InitEmpty /\ [][NextDisk]_vars

\* C35: a call whose write failed does not answer with a success.
C35_FailedWriteReported ==
    \A t \in Workers :
        (th[t].pc = "done" /\ Latest(t) /\ th[t].lost) => th[t].result # "ok"

\* --------------------------------------------------- the life of a record
\* Registrations on one request thread, HTTP adjusts on the other and the
\* bot's /addbalance, interleaved at each file access.
NextRecords ==
    \/ \E u \in {"carol", "alice"} : Register("w1", u)
    \/ \E u \in {"alice", "dave"} : UpdateBalance("w2", u, "add", 3 * Dollar)
    \/ AdminBalance("addbalance", "bob", 4 * Dollar)
    \/ RegisterSave("w1")
    \/ UpdateSave("w2")
    \/ AdminSave
    \/ LogSteps

SpecRecords == InitWith(Funded, {StockOf(0)}) /\ [][NextRecords]_vars

\* C36: a user who has a record keeps one in every later state.
C36_RecordsNeverDeleted ==
    [][DOMAIN balances \subseteq DOMAIN balances']_vars

\* ------------------------------------------------- checkout: order of the steps
\* C37: checkout validates funds, then reserves stock, then charges: a
\* checkout has written the stock file only if the balance it found on arrival
\* covers its total, and has written the balances file only after it wrote the
\* stock file with every product id it asked the stock for removed.
C37_ValidateReserveCharge ==
    \A t \in Workers :
        th[t].op = "checkout"
        => /\ "stock" \in th[t].wrote
                => /\ SumPrices(CheckoutItems(th[t].items)) > 0
                   /\ get_user_balance(th[t].preBal, th[t].user)
                          >= SumPrices(CheckoutItems(th[t].items))
           /\ "balances" \in th[t].wrote
                => /\ "stock" \in th[t].wrote
                   /\ th[t].missing = <<>>
                   /\ Len(th[t].removed) = Len(CheckoutItems(th[t].items))
                   /\ StockIds(th[t].removed) = Requested(t)

\* C37 witness: a checkout of two products has written the stock file and the
\* balances file and returned.
C37_Witness ==
    \E t \in Workers :
        /\ IsCheckout(t) /\ th[t].result = "ok"
        /\ {"stock", "balances"} \subseteq th[t].wrote
        /\ Len(th[t].removed) = 2

\* --------------------------------------------- wagers: what a reader can see
\* GET .../bets, .../matches and .../history: load_games_state() under
\* GAMES_LOCK; the reader keeps the document it was served from.
ListWagers(t, g) ==
    /\ t \in Workers
    /\ CanStart(t)
    /\ lock = NoLock
    /\ nreq' = nreq + 1
    /\ th' = [th EXCEPT ![t] =
                Finish([Fresh("list", NoUser) EXCEPT !.action = g, !.gms = games], "ok")]
    /\ UNCHANGED <<balances, stock, games, lock, nextId, logs, ghost, locked>>

\* Wager calls on one request thread, balance reads and listings on the other.
NextObserve ==
    \/ \E g \in GameTypes, u \in LedgerUsers, m \in Stakes : Create("w1", g, u, m)
    \/ \E g \in GameTypes, i \in WagerIds, u \in LedgerUsers :
           \E cr \in DrawSample(g), orl \in DrawSample(g) : Accept("w1", g, i, u, cr, orl)
    \/ WagerSaveBalances("w1")
    \/ WagerSaveGames("w1")
    \/ \E u \in LedgerUsers : ReadBalance("w2", u)
    \/ \E g \in GameTypes : ListWagers("w2", g)

SpecObserve == InitWager /\ [][NextObserve]_vars

\* Reader r was served after wager call t began, and nothing began since.
ServedDuring(r, t) ==
    /\ th[r].pc = "done" /\ th[r].op \in {"get_balance", "list"} /\ Latest(r)
    /\ th[t].result = "ok" /\ th[t].seq < th[r].seq

\* C38: no reader is served at a point where a wager operation is half done:
\* when a balance read or a listing is served, the creator's stake is not
\* already debited in balances.json with the wager missing from the active
\* list, and no wager is in the history with its payouts missing from the
\* balances.
C38_NoPartialWagerVisible ==
    \A r, t \in Workers :
        /\ (ServedDuring(r, t) /\ th[t].op = "create"
              /\ (th[r].op = "get_balance" => th[r].user = th[t].user)
              /\ th[r].preBal = th[t].bal)
           => th[t].wid \in IdsOf(th[r].preGames[ActiveKey(th[t].action)])
        /\ (ServedDuring(r, t) /\ th[t].op = "accept"
              /\ th[t].wid \in IdsOf(th[r].preGames[HistoryKey(th[t].action)]))
           => th[r].preBal = th[t].bal

\* ------------------------------------------- wagers: two accepts of one wager
Opponents == Users \ {"alice"}

\* alice creates wagers; both request threads accept or join them, one at a
\* time inside GAMES_LOCK.
NextAccept ==
    \/ \E g \in GameTypes, m \in Stakes : Create("w1", g, "alice", m)
    \/ \E t \in Workers, g \in GameTypes, i \in WagerIds, u \in Opponents :
           \E cr \in DrawSample(g), orl \in DrawSample(g) : Accept(t, g, i, u, cr, orl)
    \/ \E t \in Workers : WagerSaveBalances(t)
    \/ \E t \in Workers : WagerSaveGames(t)

SpecAccept == InitWager /\ [][NextAccept]_vars

\* The calls of t1 and t2 are accepts of the same wager by two opponents who
\* can both pay, t2 arriving next after t1, the wager waiting when t1 arrived;
\* both have returned.
RivalAccepts(t1, t2) ==
    /\ t1 # t2
    /\ IsDone(t1, "accept") /\ IsDone(t2, "accept")
    /\ th[t1].wid = th[t2].wid /\ th[t1].action = th[t2].action
    /\ th[t2].seq = th[t1].seq + 1
    /\ th[t1].user # th[t2].user
    /\ Named(t1) # <<>>
    /\ Named(t1)[1].status = "waiting"
    /\ Named(t1)[1].creator \notin {th[t1].user, th[t2].user}
    /\ get_user_balance(th[t1].preBal, th[t1].user) >= Named(t1)[1].amount
    /\ get_user_balance(th[t1].preBal, th[t2].user) >= Named(t1)[1].amount

\* C39: of two opponents accepting (joining) the same waiting wager, one
\* resolves it and the other fails with NotFound, writes nothing and keeps its
\* balance; the wager has exactly one history entry, with the first opponent.
C39_OneAcceptResolves ==
    \A t1, t2 \in Workers :
        RivalAccepts(t1, t2)
        => LET hist == games[HistoryKey(th[t1].action)]
               hits == {i \in 1..Len(hist) : hist[i].id = th[t1].wid}
           IN  /\ th[t1].result = "ok"
               /\ th[t2].result = "NotFound"
               /\ th[t2].wrote = {}
               /\ get_user_balance(balances, th[t2].user)
                      = get_user_balance(th[t1].preBal, th[t2].user)
               /\ Cardinality(hits) = 1
               /\ \A i \in hits : hist[i].opponent = th[t1].user
               /\ th[t1].wid \notin ActiveIds(th[t1].action)

\* C39 witness: two opponents accepted the same waiting wager, one after the
\* other, and the second was answered NotFound.
C39_Witness ==
    \E t1, t2 \in Workers :
        /\ RivalAccepts(t1, t2)
        /\ th[t2].result = "NotFound"
        /\ get_user_balance(balances, th[t1].user)
               # get_user_balance(th[t1].preBal, th[t1].user)

\* ------------------------------------------------ wagers: the money they hold
\* Creates, cancels and accepts of both games by every user, one after the
\* other, every wager created (and so escrowed) by the routes themselves.
NextEscrow ==
    \/ Quiet /\ \E g \in GameTypes, u \in Users, m \in Stakes : Create("w1", g, u, m)
    \/ Quiet /\ \E g \in GameTypes, i \in WagerIds, u \in Users : Cancel("w1", g, i, u)
    \/ Quiet /\ \E g \in GameTypes, i \in WagerIds, u \in Users :
                   \E cr \in DrawSample(g), orl \in DrawSample(g) : Accept("w1", g, i, u, cr, orl)
    \/ WagerSaveBalances("w1")
    \/ WagerSaveGames("w1")

SpecEscrow == InitWager /\ [][NextEscrow]_vars

RECURSIVE TotalBalance(_, _)
TotalBalance(doc, us) ==
    IF us = {} THEN 0
    ELSE LET u == CHOOSE x \in us : TRUE
         IN  doc[u].balance + TotalBalance(doc, us \ {u})

RECURSIVE WaitingStakes(_)
WaitingStakes(list) ==
    IF list = <<>> THEN 0
    ELSE (IF Head(list).status = "waiting" /\ Head(list).creatorDebited
            THEN Head(list).amount ELSE 0) + WaitingStakes(Tail(list))

\* All user balances plus the stakes held by the waiting wagers.
Worth(doc, gms) ==
    TotalBalance(doc, DOMAIN doc)
      + WaitingStakes(gms.dice_bets) + WaitingStakes(gms.blackjack_matches)

\* The accept of thread t resolved its wager as a tie of the two draws.
ResolvedTie(t) ==
    /\ th[t].op = "accept" /\ th[t].result = "ok"
    /\ Outcome(th[t].action, games[HistoryKey(th[t].action)][1]) = "tie"

\* C40: wager calls never create money: after each create, cancel or
\* accept/join the sum of all balances plus the waiting stakes is what it was
\* before the call, except after a tie, where it is lower by the stake.
C40_WagersNeverCreateMoney ==
    \A t \in Workers :
        (th[t].pc = "done" /\ th[t].op \in {"create", "cancel", "accept"} /\ Latest(t))
        => LET before == Worth(th[t].preBal, th[t].preGames)
               after == Worth(balances, games)
           IN  /\ after <= before
               /\ ResolvedTie(t)
                    => after = before - games[HistoryKey(th[t].action)][1].amount
               /\ ~ResolvedTie(t) => after = before

====
